---- MODULE Spec2Model ----
(***************************************************************************)
(* ipytone front-end (TypeScript widget models): the audio connection      *)
(* graph, the node/parameter lifecycle, the transport scheduler, the       *)
(* Part/Sequence primitives and the meter reads, as state machines.        *)
(*                                                                         *)
(* The audio engine (Tone.js / Web Audio) is the external collaborator.    *)
(* Its state is modelled next to the widget models' state: live            *)
(* connections, per-unit disposed / overridden flags and values, the       *)
(* transport's registered events.                                          *)
(*                                                                         *)
(* Each subsystem has its own specification (GraphSpec, NodeSpec,          *)
(* TransportSpec, ScheduleSpec, RepeatSpec, PartSpec, MeterSpec,           *)
(* ReverbSpec, ObserverSpec, CallbackSpec, ClockSpec, SignalSpec,          *)
(* QuerySpec, UnitSpec, SamplerSpec, SetCallbackSpec); the variables of    *)
(* the other subsystems stay at their idle values.                         *)
(***************************************************************************)
EXTENDS Integers, Sequences, FiniteSets, TLC

(***************************************************************************)
(* Bounds                                                                  *)
(***************************************************************************)
\* longest declared connection list
MaxConns == 2
\* number of external event ids the remote side uses
MaxEvents == 2
\* most events a Part or Sequence holds
MaxPartEvents == 3
\* most channels of a meter, most bins of an analysis read
MaxChannels == 3
\* ticks per quarter note of the transport clock (the engine's PPQ, scaled down)
Resolution == 2
\* most tempo bindings of one signal
MaxSyncs == 2
\* most scheduleRepeat commands one observer is sent
MaxRepeats == 3
\* how often a callback is followed firing
MaxFirings == 2

VARIABLES
  \* ---- connection graph (widget_graph.ts, widget_core / widget_signal) ----
  connections,     \* AudioGraphModel attribute `_connections` (list of edges)
  live,            \* engine: set of live connections
  engDisposed,     \* engine: `disposed` flag of each unit
  engOverridden,   \* engine: `overridden` flag of each Param / Signal unit
  engValue,        \* engine: current value of each Param / Signal unit
  engWrites,       \* engine: units whose value the last handler assigned
  attrOverridden,  \* ParamModel attribute `overridden`
  attrValue,       \* ParamModel / SignalModel attribute `value`
  pushed,          \* attribute values last synchronised with the remote side
  calls,           \* engine calls and callbacks issued by the last update cycle
  \* ---- node lifecycle (widget_base, widget_core ParamModel, widget_event) ----
  created,         \* the widget models that have been initialized
  node,            \* each model's live unit (`node` / `event` field)
  attrDisposed,    \* each model's `_disposed` attribute
  unitDisposed,    \* engine: `disposed` flag of each unit
  redisposed,      \* engine: dispose() was called on the unit when already disposed
  \* ---- transport scheduler (widget_transport) ----
  pending,         \* schedule commands waiting for their target models to resolve
  py2jsEventID,    \* TransportModel.py2jsEventID: external id -> engine handle
  engEvents,       \* engine: the events registered on the transport
  nextHandle,      \* engine: the handle the next registration gets
  scheduled,       \* external ids a schedule command has been handled for
  clearedPending,  \* external ids cleared while their schedule was pending
  unresolved,      \* pending external id -> target models still to resolve
  \* ---- Part / Sequence (widget_event) ----
  partEvents,      \* engine: the (time, value) events the Part contains
  seqCount,        \* engine: the number of events the Sequence contains
  attrLength,      \* the models' `length` attribute
  remoteLength,    \* `length` as last pushed to the remote side
  \* ---- meters and analysers (widget_channel) ----
  meterKind,       \* which model class reads the unit
  reading,         \* engine: what the unit's getValue() reports now
  surfaced,        \* what the model's getValue returned last
  \* ---- asynchronously built node (ReverbModel, widget_effect) ----
  rvCreated,       \* ReverbModel.initialize has run
  rvCreateNode,    \* the model's `_create_node` attribute
  rvUnits,         \* engine: how many Reverb units have been constructed
  rvNode,          \* this.node: 0 undefined, k the k-th unit constructed
  rvReady,         \* engine: the impulse response build has resolved
  rvThen,          \* a node.ready.then callback is registered and has not run
  rvWired,         \* the unit whose input / output each sub-model holds (0: none)
  rvConnections,   \* the declared connections around the reverb
  rvLive,          \* engine: the live connections around the reverb
  \* ---- transport clock, synced signal, point queries (TransportModel) ----
  tState,          \* engine: tone.Transport.state
  tTicks,          \* engine: tone.Transport.ticks
  tLoop,           \* engine: tone.Transport.loop
  tAttr,           \* the model's position / seconds / progress / ticks
  tRemote,         \* those four attributes as the remote side holds them
  sigValue,        \* the signal model's `value` attribute
  sigRemote,       \* `value` as the remote side holds it
  sigInitial,      \* engine: the value the signal had when it was last bound
  sigBound,        \* engine: the ratios the signal is bound to the tempo at
  sigPending,      \* sync_signal commands whose model lookup has not resolved
  qResult,         \* what the last getValue / getValueAtTime call returned
  \* ---- scheduled observation (ScheduleObserverModel, widget_observe) ----
  obEvent,         \* this.event: the id and kind of the last repetition started
  obTimers,        \* browser: the live setInterval timers of the observer
  obEvents,        \* engine: the observer's repeat events in the transport
  obNextTimer,     \* browser: the id the next setInterval returns
  obNextHandle,    \* engine: the id the next transport event gets
  obCancelled,     \* scheduleCancel was handled and no scheduleRepeat since
  \* ---- a reconstructed callback (getToneCallback) ----
  cbItems,         \* the steps of the callback, as resolved at registration
  cbTime,          \* engine: the clock time of the last firing (0: none yet)
  cbLog,           \* engine: the method calls the last firing made, in order
  \* ---- a unit-holding node and its sub-models (AudioNodeModel, BaseInstrumentModel) ----
  uConfig,         \* the model: its kind, `_create_node`, whether replaceNode disposes
  uInitialized,    \* initialize has run
  uUnits,          \* engine: how many units were built for the model, which are disposed
  uNode,           \* this.node: 0 undefined, g the g-th unit built
  uSub,            \* the handle each sub-model holds in its `node` field
  uChannels,       \* the model's `channel_count` attribute
  \* ---- a sampler and the audio buffer it plays (SamplerModel, AudioBufferModel) ----
  sbConfig,        \* the buffer model as declared: `_create_node`, `reverse`
  sbInitialized,   \* AudioBufferModel.initialize has run
  sbAttr,          \* the buffer model's loaded / reverse / length attributes
  sbRemote,        \* those attributes as last pushed to the remote side
  sbNode,          \* the buffer model's node: 0 undefined, b the b-th engine buffer
  sbBuffers,       \* engine: the buffers built, with their load callbacks
  smNode,          \* the sampler model's node: 0 undefined, 1 its unit
  smAttack,        \* the sampler model's `attack` attribute
  smUnitAttack,    \* engine: the sampler unit's attack
  \* ---- callback assignment of one event model (widget_event.ts) ----
  scCommands,      \* the callee lists of the set_callback commands handled, in order
  scModels,        \* widget manager: the models whose lookup resolves
  scPending,       \* the commands whose node lookup has not resolved
  scCallback,      \* engine: the command event.callback was built from (0: none)
  thrown,          \* the last handler ended with an exception
  lastOp           \* the handler that ran last

graphVars == <<connections, live, engDisposed, engOverridden, engValue,
               engWrites, attrOverridden, attrValue, pushed, calls>>

nodeVars == <<created, node, attrDisposed, unitDisposed, redisposed>>

transportVars == <<pending, py2jsEventID, engEvents, nextHandle, scheduled,
                   clearedPending, unresolved>>

partVars == <<partEvents, seqCount, attrLength, remoteLength>>

meterVars == <<meterKind, reading, surfaced>>

reverbVars == <<rvCreated, rvCreateNode, rvUnits, rvNode, rvReady, rvThen,
                rvWired, rvConnections, rvLive>>

clockVars == <<tState, tTicks, tLoop, tAttr, tRemote, sigValue, sigRemote,
               sigInitial, sigBound, sigPending, qResult>>

observerVars == <<obEvent, obTimers, obEvents, obNextTimer, obNextHandle,
                  obCancelled>>

callbackVars == <<cbItems, cbTime, cbLog>>

unitVars == <<uConfig, uInitialized, uUnits, uNode, uSub, uChannels>>

samplerVars == <<sbConfig, sbInitialized, sbAttr, sbRemote, sbNode, sbBuffers, smNode, smAttack, smUnitAttack>>

setCallbackVars == <<scCommands, scModels, scPending, scCallback>>

vars == <<graphVars, nodeVars, transportVars, partVars, meterVars, reverbVars,
          clockVars, observerVars, callbackVars,
          unitVars,
          samplerVars,
          setCallbackVars,
          thrown, lastOp>>

\* what the actions of one subsystem leave alone
outsideGraph ==
  <<nodeVars, transportVars, partVars, meterVars, reverbVars, clockVars,
    observerVars, callbackVars,
    unitVars,
    samplerVars,
    setCallbackVars>>
outsideNode ==
  <<graphVars, transportVars, partVars, meterVars, reverbVars, clockVars,
    observerVars, callbackVars,
    unitVars,
    samplerVars,
    setCallbackVars>>
outsideTransport ==
  <<graphVars, nodeVars, partVars, meterVars, reverbVars, clockVars,
    observerVars, callbackVars,
    unitVars,
    samplerVars,
    setCallbackVars>>
outsidePart ==
  <<graphVars, nodeVars, transportVars, meterVars, reverbVars, clockVars,
    observerVars, callbackVars,
    unitVars,
    samplerVars,
    setCallbackVars>>
outsideReverb ==
  <<graphVars, nodeVars, transportVars, partVars, meterVars, clockVars,
    observerVars, callbackVars,
    unitVars,
    samplerVars,
    setCallbackVars>>
outsideMeter ==
  <<graphVars, nodeVars, transportVars, partVars, reverbVars, clockVars,
    observerVars, callbackVars,
    unitVars,
    samplerVars,
    setCallbackVars>>
outsideClock ==
  <<graphVars, nodeVars, transportVars, partVars, meterVars, reverbVars,
    observerVars, callbackVars,
    unitVars,
    samplerVars,
    setCallbackVars>>
outsideObserver ==
  <<graphVars, nodeVars, transportVars, partVars, meterVars, reverbVars,
    clockVars, callbackVars,
    unitVars,
    samplerVars,
    setCallbackVars>>
outsideCallback ==
  <<graphVars, nodeVars, transportVars, partVars, meterVars, reverbVars,
    clockVars, observerVars,
    unitVars,
    samplerVars,
    setCallbackVars>>
outsideUnit ==
  <<graphVars,
    nodeVars,
    transportVars,
    partVars,
    meterVars,
    reverbVars,
    clockVars,
    observerVars,
    callbackVars,
    samplerVars,
    setCallbackVars>>
outsideSampler ==
  <<graphVars,
    nodeVars,
    transportVars,
    partVars,
    meterVars,
    reverbVars,
    clockVars,
    observerVars,
    callbackVars,
    unitVars,
    setCallbackVars>>
outsideSetCallback ==
  <<graphVars,
    nodeVars,
    transportVars,
    partVars,
    meterVars,
    reverbVars,
    clockVars,
    observerVars,
    callbackVars,
    unitVars,
    samplerVars>>

(***************************************************************************)
(* Idle values: the state of a subsystem that a specification leaves out   *)
(***************************************************************************)
NoUnit == "none"

\* Widget models of the lifecycle: a composite audio node, its `_input` and
\* `_output` sub-node models (internal nodes, `_create_node` false), a nested
\* ParamModel, and an event model.
AudioNodeModels == {"node", "in", "out"}
LifecycleParamModels == {"par"}
EventModels == {"evt"}
Models == AudioNodeModels \cup LifecycleParamModels \cup EventModels

NodeIdle ==
  /\ created = {}
  /\ node = [m \in Models |-> NoUnit]
  /\ attrDisposed = [m \in Models |-> FALSE]
  /\ unitDisposed = [u \in Models |-> FALSE]
  /\ redisposed = [u \in Models |-> FALSE]

\* An empty JavaScript object / map.
EmptyMap == [x \in {} |-> 0]

TransportIdle ==
  /\ pending = {}
  /\ py2jsEventID = EmptyMap
  /\ engEvents = {}
  /\ nextHandle = 0
  /\ scheduled = {}
  /\ clearedPending = {}
  /\ unresolved = EmptyMap

\* the two sequencing models of widget_event
SequencingModels == {"part", "seq"}

PartIdle ==
  /\ partEvents = <<>>
  /\ seqCount = 0
  /\ attrLength = [m \in SequencingModels |-> 0]
  /\ remoteLength = [m \in SequencingModels |-> 0]

\* nothing read yet
NoValue == [kind |-> "none", elems |-> <<>>]

MeterIdle ==
  /\ meterKind = "none"
  /\ reading = NoValue
  /\ surfaced = NoValue

\* the reverb's input and output sub-models
ReverbSubModels == {"in", "out"}

\* The remote side creates a Reverb with `_create_node` true.
ReverbIdle ==
  /\ rvCreated = FALSE
  /\ rvCreateNode = TRUE
  /\ rvUnits = 0
  /\ rvNode = 0
  /\ rvReady = FALSE
  /\ rvThen = FALSE
  /\ rvWired = [m \in ReverbSubModels |-> 0]
  /\ rvConnections = <<>>
  /\ rvLive = {}

\* nothing queried yet
NoResult == [op |-> "none", model |-> "none", trait |-> "none", value |-> <<>>]

\* TransportModel.defaults(): position, seconds, progress and ticks are 0; the
\* model is built from the remote side's state, so both sides agree.  A
\* position is a tuple: <<ms>> is a bare number of seconds (in milliseconds),
\* <<bars, quarters, sixteenths>> is the engine's "bars:quarters:sixteenths".
TransportDefaults == [position |-> <<0>>, seconds |-> 0, progress |-> 0, ticks |-> 0]

ClockIdle ==
  /\ tState = "stopped"
  /\ tTicks = 0
  /\ tLoop = FALSE
  /\ tAttr = TransportDefaults
  /\ tRemote = TransportDefaults
  /\ sigValue = 0
  /\ sigRemote = 0
  /\ sigInitial = 0
  /\ sigBound = <<>>
  /\ sigPending = {}
  /\ qResult = NoResult

\* ScheduleObserverModel.initialize: this.event = { id: 0, transport: false };
\* setInterval returns positive ids.
ObserverIdle ==
  /\ obEvent = [id |-> 0, transport |-> FALSE]
  /\ obTimers = {}
  /\ obEvents = {}
  /\ obNextTimer = 1
  /\ obNextHandle = 0
  /\ obCancelled = FALSE

\* no callback built
CallbackIdle ==
  /\ cbItems = <<>>
  /\ cbTime = 0
  /\ cbLog = <<>>

\* the values of `channel_count`; 2 is the attribute's default and the
\* channelCount of a unit the engine has just built
ChannelCounts == {1, 2}
DefaultChannelCount == 2

\* no node model declared
UnitIdle ==
  /\ uConfig = [kind |-> "none", create_node |-> FALSE, disposes |-> FALSE]
  /\ uInitialized = FALSE
  /\ uUnits = [built |-> 0, disposed |-> {}, channels |-> <<>>]
  /\ uNode = 0
  /\ uSub = EmptyMap
  /\ uChannels = DefaultChannelCount

\* AudioBufferModel.defaults(): nothing loaded
NoBufferProperties == [loaded |-> FALSE, reverse |-> FALSE, length |-> 0]

\* no sampler declared
SamplerIdle ==
  /\ sbConfig = [create_node |-> FALSE, reverse |-> FALSE]
  /\ sbInitialized = FALSE
  /\ sbAttr = NoBufferProperties
  /\ sbRemote = NoBufferProperties
  /\ sbNode = 0
  /\ sbBuffers = <<>>
  /\ smNode = 0
  /\ smAttack = 0
  /\ smUnitAttack = 0

\* No set_callback command has reached the event model.
SetCallbackIdle ==
  /\ scCommands = <<>>
  /\ scModels = {}
  /\ scPending = {}
  /\ scCallback = 0

(***************************************************************************)
(* Connection graph                                                        *)
(***************************************************************************)
\* Widget models taking part in the graph: a plain source node, a signal
\* (source and destination), a node destination and a parameter destination.
SignalSources == {"sig"}
Sources == {"osc"} \cup SignalSources
NodeDests == {"gain"}
ParamDests == {"param"}
SignalDests == {"sig"}
Dests == NodeDests \cup ParamDests \cup SignalDests
GraphNodes == Sources \cup Dests

\* Engine units holding a value and an overridden flag.
ParamUnits == ParamDests \cup SignalDests
\* Models holding a `value` attribute: the ParamModel, the SignalModel and
\* the ParamModel that is the SignalModel's `_input`.
ValueModels == {"param", "sig", "sigin"}
\* Models holding an `overridden` attribute (ParamModel instances).
ParamModels == {"param", "sigin"}
\* The engine unit behind a model: the signal's input parameter is the
\* signal's own parameter.
UnitOf(m) == IF m = "sigin" THEN "sig" ELSE m

\* parameter values the remote side sets
Values == {0, 1}

\* The connections the remote side declares in this model, in the order it
\* lists them: node to node (two input indices), node to parameter, signal
\* to parameter, node to signal.  A connection is
\* [source, destination, output index, input index].
EdgeOrder ==
  << [src |-> "osc", dst |-> "gain", out |-> 0, inp |-> 0],
     [src |-> "osc", dst |-> "gain", out |-> 0, inp |-> 1],
     [src |-> "osc", dst |-> "param", out |-> 0, inp |-> 0],
     [src |-> "sig", dst |-> "param", out |-> 0, inp |-> 0],
     [src |-> "osc", dst |-> "sig", out |-> 0, inp |-> 0] >>

Edge == {EdgeOrder[i] : i \in 1..Len(EdgeOrder)}

\* nodes the remote side disposes in this model
DisposableNodes == {"osc", "gain"}

Range(s) == {s[i] : i \in 1..Len(s)}

\* Declared lists: at most MaxConns connections, no connection twice, in
\* the remote side's order.
ConnectionLists ==
  LET picks == {p \in UNION {[1..n -> 1..Len(EdgeOrder)] : n \in 0..MaxConns} :
                  \A i, j \in 1..Len(p) : i < j => p[i] < p[j]}
  IN {[i \in 1..Len(p) |-> EdgeOrder[p[i]]] : p \in picks}

\* widget_graph.ts isNative: AudioNode / AudioParam instances.  Every unit
\* of this model is a Tone.js object.
isNative(n) == FALSE

\* widget_graph.ts isDisposed
isDisposed(disposed, n) == ~isNative(n) /\ disposed[n]

\* widget_graph.ts getConnectionId
getConnectionId(conn) ==
  conn.src \o "::" \o conn.dst \o "::" \o ToString(conn.out)
           \o "::" \o ToString(conn.inp)

\* widget_graph.ts getConnectionIds
getConnectionIds(conns) == {getConnectionId(conns[i]) : i \in 1..Len(conns)}

\* every declared connection taken as new
connAddedAll(cur, prev) == cur

\* updateConnections, first filter: connections whose id is not among the
\* previous ids
connAdded(cur, prev) ==
  SelectSeq(cur, LAMBDA other : getConnectionId(other) \notin getConnectionIds(prev))

\* updateConnections, second filter: the previous connections whose id is
\* not among the ids of `connections_prev` (sic: the code compares the
\* previous list with itself)
connRemoved(cur, prev) ==
  SelectSeq(prev, LAMBDA other : getConnectionId(other) \notin getConnectionIds(prev))

\* Engine: source.connect(destination, out, in).  A connection driven by a
\* signal source marks a Param / Signal destination overridden and resets
\* its value to 0; a plain node source leaves both alone.
EngineConnect(eng, e) ==
  LET over == e.src \in SignalSources /\ e.dst \in ParamUnits
  IN [live |-> eng.live \cup {e},
      overridden |-> IF over THEN [eng.overridden EXCEPT ![e.dst] = TRUE]
                     ELSE eng.overridden,
      value |-> IF over THEN [eng.value EXCEPT ![e.dst] = 0] ELSE eng.value,
      writes |-> eng.writes]

\* Engine: source.disconnect(destination, out, in).  The overridden flag is
\* not reset.
EngineDisconnect(eng, e) == [eng EXCEPT !.live = eng.live \ {e}]

RECURSIVE ConnectAll(_, _)
\* updateConnections: forEach over the added connections
ConnectAll(eng, added) ==
  IF added = <<>> THEN eng
  ELSE ConnectAll(EngineConnect(eng, Head(added)), Tail(added))

\* updateConnections: the guard around disconnect
ShouldDisconnect(disposed, e) ==
  ~isDisposed(disposed, e.src) \/ ~isDisposed(disposed, e.dst)

RECURSIVE DisconnectAll(_, _, _)
\* updateConnections: forEach over the removed connections
DisconnectAll(eng, disposed, removed) ==
  IF removed = <<>> THEN eng
  ELSE LET e == Head(removed)
           next == IF ShouldDisconnect(disposed, e)
                   THEN EngineDisconnect(eng, e) ELSE eng
       IN DisconnectAll(next, disposed, Tail(removed))

\* The engine calls of one cycle, in the order they are issued.
ConnectCalls(added) == [i \in 1..Len(added) |-> [op |-> "connect", edge |-> added[i]]]

DisconnectCalls(disposed, removed) ==
  LET kept == SelectSeq(removed, LAMBDA e : ShouldDisconnect(disposed, e))
  IN [i \in 1..Len(kept) |-> [op |-> "disconnect", edge |-> kept[i]]]

CallbackCalls(touched) ==
  [i \in 1..Len(touched) |-> [op |-> "callback", edge |-> touched[i]]]

\* ParamModel / SignalModel 'change:value' listener: node.value = get('value')
ParamChangeValue(eng, m, v) ==
  [eng EXCEPT !.value[UnitOf(m)] = v, !.writes = @ \cup {UnitOf(m)}]

\* Backbone set('value', v): the listener runs when the value changes.
SetValueAttr(st, m, v) ==
  [st EXCEPT !.attrValue[m] = v,
             !.eng = IF st.attrValue[m] # v THEN ParamChangeValue(st.eng, m, v)
                     ELSE st.eng]

\* set('overridden', node.overridden)
ReadOverridden(st, m) ==
  [st EXCEPT !.attrOverridden[m] = st.eng.overridden[UnitOf(m)]]

\* set('value', node.value)
ReadValue(st, m) == SetValueAttr(st, m, st.eng.value[UnitOf(m)])

\* save_changes(): the model's attributes reach the remote side.
SaveChanges(st, m) ==
  [st EXCEPT !.pushed[m] =
     [value |-> st.attrValue[m],
      overridden |-> IF m \in ParamModels THEN st.attrOverridden[m] ELSE FALSE]]

ParamConnectInputCallbackNoValue(st, m) == SaveChanges(ReadOverridden(st, m), m)

\* ParamModel.connectInputCallback
ParamConnectInputCallback(st, m) ==
  SaveChanges(ReadValue(ReadOverridden(st, m), m), m)

\* SignalModel.updateOverridden: the input ParamModel first, then the
\* SignalModel's own value
SignalUpdateOverridden(st) ==
  SaveChanges(ReadValue(ParamConnectInputCallback(st, "sigin"), "sig"), "sig")

\* conn[1].connectInputCallback(), by destination kind: AudioNodeModel (no-op),
\* ParamModel, SignalModel.
ConnectInputCallback(st, d) ==
  IF d \in ParamDests THEN ParamConnectInputCallback(st, d)
  ELSE IF d \in SignalDests THEN SignalUpdateOverridden(st)
  ELSE st

RECURSIVE CallbackAll(_, _)
\* updateConnections: forEach over connAdded.concat(connRemoved)
CallbackAll(st, touched) ==
  IF touched = <<>> THEN st
  ELSE CallbackAll(ConnectInputCallback(st, Head(touched).dst), Tail(touched))

\* The state the handlers work on: the engine next to the model attributes.
\* No handler has assigned a unit's value yet.
GraphState ==
  [eng |-> [live |-> live, overridden |-> engOverridden, value |-> engValue,
            writes |-> {}],
   attrOverridden |-> attrOverridden, attrValue |-> attrValue, pushed |-> pushed]

\* AudioGraphModel.updateConnections, from the connects to the callbacks
RunUpdate(st, disposed, added, removed) ==
  CallbackAll([st EXCEPT !.eng = DisconnectAll(ConnectAll(st.eng, added),
                                               disposed, removed)],
              added \o removed)

\* the callbacks issued ahead of the engine calls
CycleCallsCallbacksFirst(disposed, added, removed) ==
  CallbackCalls(added \o removed)
    \o ConnectCalls(added) \o DisconnectCalls(disposed, removed)

\* updateConnections: the connect loop, then the disconnect loop, then the
\* callback loop
CycleCalls(disposed, added, removed) ==
  ConnectCalls(added) \o DisconnectCalls(disposed, removed)
    \o CallbackCalls(added \o removed)

StoreGraphState(st) ==
  /\ live' = st.eng.live
  /\ engOverridden' = st.eng.overridden
  /\ engValue' = st.eng.value
  /\ engWrites' = st.eng.writes
  /\ attrOverridden' = st.attrOverridden
  /\ attrValue' = st.attrValue
  /\ pushed' = st.pushed

GraphInit ==
  /\ connections = <<>>
  /\ live = {}
  /\ engDisposed = [n \in GraphNodes |-> FALSE]
  /\ engOverridden = [u \in ParamUnits |-> FALSE]
  /\ engValue = [u \in ParamUnits |-> 0]
  /\ engWrites = {}
  /\ attrOverridden = [m \in ParamModels |-> FALSE]
  /\ attrValue = [m \in ValueModels |-> 0]
  /\ pushed = [m \in ValueModels |-> [value |-> 0, overridden |-> FALSE]]
  /\ calls = <<>>
  /\ NodeIdle
  /\ TransportIdle
  /\ PartIdle
  /\ MeterIdle
  /\ ReverbIdle
  /\ ClockIdle
  /\ ObserverIdle
  /\ CallbackIdle
  /\ UnitIdle
  /\ SamplerIdle
  /\ SetCallbackIdle
  /\ thrown = FALSE
  /\ lastOp = "init"

UpdateStep(new, added, removed) ==
  /\ connections' = new
  /\ StoreGraphState(RunUpdate(GraphState, engDisposed, added, removed))
  /\ calls' = CycleCalls(engDisposed, added, removed)
  /\ lastOp' = "update"
  /\ UNCHANGED <<engDisposed, outsideGraph, thrown>>

\* AudioGraphModel 'change:_connections' -> updateConnections.  The remote
\* side declares a new list; it only adds connections between undisposed
\* units.
UpdateConnections(new) ==
  /\ new # connections
  /\ \A e \in Range(new) \ Range(connections) :
       ~engDisposed[e.src] /\ ~engDisposed[e.dst]
  /\ UpdateStep(new, connAdded(new, connections), connRemoved(new, connections))

\* The remote side sets `value` on a ParamModel / SignalModel:
\* 'change:value' -> node.value = value.
SetValue(m, v) ==
  /\ attrValue[m] # v
  /\ StoreGraphState(SaveChanges(SetValueAttr(GraphState, m, v), m))
  /\ calls' = <<>>
  /\ lastOp' = "set_value"
  /\ UNCHANGED <<connections, engDisposed, outsideGraph, thrown>>

\* disposal that also takes the override mark off every parameter model
DisposeGraphNodeClearsOverridden(n) ==
  /\ ~engDisposed[n]
  /\ engDisposed' = [engDisposed EXCEPT ![n] = TRUE]
  /\ live' = {e \in live : e.src # n /\ e.dst # n}
  /\ engWrites' = {}
  /\ attrOverridden' = [m \in ParamModels |-> FALSE]
  /\ calls' = <<>>
  /\ lastOp' = "dispose"
  /\ UNCHANGED <<connections, engOverridden, engValue,
                 attrValue, pushed, outsideGraph, thrown>>

\* The remote side sets `_disposed` on a graph node: ToneObjectModel.dispose
\* disposes the unit, and the engine severs the unit's connections.
DisposeGraphNode(n) ==
  /\ ~engDisposed[n]
  /\ engDisposed' = [engDisposed EXCEPT ![n] = TRUE]
  /\ live' = {e \in live : e.src # n /\ e.dst # n}
  /\ engWrites' = {}
  /\ calls' = <<>>
  /\ lastOp' = "dispose"
  /\ UNCHANGED <<connections, engOverridden, engValue, attrOverridden,
                 attrValue, pushed, outsideGraph, thrown>>

GraphNext ==
  \/ \E new \in ConnectionLists : UpdateConnections(new)
  \/ \E m \in ValueModels, v \in Values : SetValue(m, v)
  \/ \E n \in DisposableNodes : DisposeGraphNode(n)

GraphSpec == GraphInit /\ [][GraphNext]_vars

(***************************************************************************)
(* Connection graph: properties                                            *)
(***************************************************************************)
\* the calls of one kind issued by the last update cycle
CallsOf(log, op) == SelectSeq(log, LAMBDA c : c.op = op)

\* how many calls of one kind the cycle issued for one connection
CallCount(log, op, e) == Len(SelectSeq(log, LAMBDA c : c.op = op /\ c.edge = e))

Undisposed(e) == ~engDisposed[e.src] /\ ~engDisposed[e.dst]

\* the model whose `overridden` attribute describes a Param / Signal unit
OverriddenModelOf(u) == IF u = "sig" THEN "sigin" ELSE u

\* the models whose `value` attribute describes a Param / Signal unit
ValueModelsOf(u) == IF u = "sig" THEN {"sig", "sigin"} ELSE {u}

\* the connections into a Param / Signal that the last cycle made live
ConnectedParamEdges ==
  {c.edge : c \in {calls[i] : i \in 1..Len(calls)}} \cap
  {e \in Edge : e.dst \in ParamUnits /\ CallCount(calls, "connect", e) > 0}

\* C1: after each update of the declared connections, a connection between
\* existing (undisposed) units is live in the engine exactly when it is in
\* the most recently declared list: nothing stale, nothing missing.
C1_LiveEqualsDeclared ==
  lastOp = "update" =>
    \A e \in Edge : Undisposed(e) => (e \in live <=> e \in Range(connections))

\* C2: an update that only removes connections, none of them with a disposed
\* endpoint, issues exactly one engine disconnect per removed connection and
\* no connect.
C2_RemovalDisconnectsOnce ==
  [][(/\ lastOp' = "update"
      /\ Range(connections') \subseteq Range(connections)
      /\ Range(connections') # Range(connections)
      /\ \A e \in Range(connections) \ Range(connections') : Undisposed(e))
     => (/\ Len(CallsOf(calls', "connect")) = 0
         /\ \A e \in Range(connections) \ Range(connections') :
              CallCount(calls', "disconnect", e) = 1
         /\ Len(CallsOf(calls', "disconnect"))
              = Cardinality(Range(connections) \ Range(connections')))]_vars

\* C7 as stated: after a connection into a Parameter or Signal became live,
\* the destination's `overridden` attribute is true, its declared value is
\* the engine's live value, and both are pushed.
C7_OverriddenTrueAfterConnect ==
  lastOp = "update" =>
    \A e \in ConnectedParamEdges :
      /\ attrOverridden[OverriddenModelOf(e.dst)]
      /\ \A m \in ValueModelsOf(e.dst) : attrValue[m] = engValue[e.dst]

\* C7 (amended): after a connection into a Parameter or Signal became live,
\* the destination's `overridden` attribute equals the engine's overridden
\* flag of that unit, its declared `value` equals the engine's live value,
\* and what the remote side was sent are these same values.
C7_OverriddenReadBack ==
  lastOp = "update" =>
    \A e \in ConnectedParamEdges :
      /\ attrOverridden[OverriddenModelOf(e.dst)] = engOverridden[e.dst]
      /\ pushed[OverriddenModelOf(e.dst)].overridden = engOverridden[e.dst]
      /\ \A m \in ValueModelsOf(e.dst) :
           /\ attrValue[m] = engValue[e.dst]
           /\ pushed[m].value = engValue[e.dst]

\* C7 witness: a signal was connected into the parameter, the engine marked
\* it overridden and the model read the flag and the reset value back.
C7_Witness ==
  /\ lastOp = "update"
  /\ CallCount(calls, "connect", EdgeOrder[4]) = 1
  /\ engOverridden["param"] /\ attrOverridden["param"]
  /\ pushed["param"] = [value |-> 0, overridden |-> TRUE]

\* the connections of the new list that the previous list does not hold, and
\* the other way round, compared as (source, destination, output, input)
AddedEdges(new, prev) == Range(new) \ Range(prev)
RemovedEdges(new, prev) == Range(prev) \ Range(new)

\* how many callbacks the cycle issued on one destination
CallbackCount(log, d) ==
  Len(SelectSeq(log, LAMBDA c : c.op = "callback" /\ c.edge.dst = d))

\* C25: in each update the engine connect is invoked exactly once for every
\* connection that is in the new declared list and not in the previous one,
\* and for no other connection; two connections are the same iff source,
\* destination, output index and input index are the same.
C25_ConnectOncePerAdded ==
  [][lastOp' = "update"
       => \A e \in Edge :
            CallCount(calls', "connect", e)
              = IF e \in AddedEdges(connections', connections) THEN 1 ELSE 0
    ]_vars

\* One connection was kept and one was added (same source and destination
\* as the kept one, another input index): the cycle issued one connect, for
\* the added one.
C25_Witness ==
  /\ lastOp = "update"
  /\ connections = <<EdgeOrder[1], EdgeOrder[2]>>
  /\ CallsOf(calls, "connect") = <<[op |-> "connect", edge |-> EdgeOrder[2]]>>

\* C26: in each update cycle every destination of an added or removed
\* connection has its connect-input callback invoked exactly once, also when
\* several added or removed connections share the destination.
C26_CallbackOncePerDestination ==
  [][lastOp' = "update"
       => \A d \in Dests :
            CallbackCount(calls', d)
              = IF \E e \in AddedEdges(connections', connections)
                          \cup RemovedEdges(connections', connections) :
                       e.dst = d
                THEN 1 ELSE 0]_vars

\* C27: within one update cycle no connect-input callback is invoked before
\* a connect or disconnect call of that cycle.
C27_CallbacksAfterTopology ==
  lastOp = "update" =>
    \A i, j \in 1..Len(calls) :
      (calls[i].op = "callback" /\ calls[j].op \in {"connect", "disconnect"})
        => j < i

\* A cycle with two connects and the callbacks of their destinations.
C27_Witness ==
  /\ lastOp = "update"
  /\ Len(CallsOf(calls, "connect")) = 2
  /\ Len(CallsOf(calls, "callback")) = 2
  /\ calls[1].op = "connect" /\ calls[4].op = "callback"

\* C28: for each removed connection the engine disconnect is invoked when
\* neither endpoint's unit is disposed and is not invoked when an endpoint's
\* unit is disposed.
C28_DisconnectUnlessDisposed ==
  [][lastOp' = "update"
       => \A e \in RemovedEdges(connections', connections) :
            CallCount(calls', "disconnect", e) = IF Undisposed(e) THEN 1 ELSE 0
    ]_vars

C38_ReadBackWritesNothing ==
  [][lastOp' = "update" => engWrites' = {}]_vars

(***************************************************************************)
(* Node lifecycle                                                          *)
(***************************************************************************)
\* Models that are handed their unit by the composite node (`_create_node`
\* false): its input, output and nested parameter.
SubModels == {"in", "out", "par"}

\* Engine: the units a unit owns.  A Tone.js node disposes its input, its
\* output and its parameters when it is disposed.
SubUnits(u) == IF u = "node" THEN SubModels ELSE {}

\* Engine: unit.dispose().  Marks the unit and the units it owns disposed;
\* records a call made on a unit that was disposed already.
EngineDispose(eng, u) ==
  [eng EXCEPT !.disposed = [x \in Models |-> eng.disposed[x] \/ x = u
                                               \/ x \in SubUnits(u)],
              !.redisposed[u] = eng.redisposed[u] \/ eng.disposed[u]]

\* ToneObjectModel.dispose / ParamModel.dispose: dispose the unit unless it is
\* disposed already.  Reading `disposed` of an undefined `node` throws.
ToneObjectDispose(eng, u) ==
  IF eng.thrown THEN eng
  ELSE IF u = NoUnit THEN [eng EXCEPT !.thrown = TRUE]
  ELSE IF ~eng.disposed[u] THEN EngineDispose(eng, u)
  ELSE eng

\* BaseEventModel.dispose / EventModel.dispose: this.event.dispose()
BaseEventDispose(eng, u) ==
  IF u = NoUnit THEN [eng EXCEPT !.thrown = TRUE] ELSE EngineDispose(eng, u)

\* The 'change:_disposed' listeners of a model, in registration order:
\* ToneObjectModel.initEventListeners registers this.dispose; ParamModel
\* registers it a second time.
DisposeListeners(eng, m, u) ==
  IF m \in EventModels THEN BaseEventDispose(eng, u)
  ELSE IF m \in LifecycleParamModels
       THEN ToneObjectDispose(ToneObjectDispose(eng, u), u)
  ELSE ToneObjectDispose(eng, u)

NodeEngine ==
  [disposed |-> unitDisposed, redisposed |-> redisposed, thrown |-> FALSE]

StoreNodeEngine(eng) ==
  /\ unitDisposed' = eng.disposed
  /\ redisposed' = eng.redisposed
  /\ thrown' = eng.thrown

GraphIdle ==
  /\ connections = <<>>
  /\ live = {}
  /\ engDisposed = [n \in GraphNodes |-> FALSE]
  /\ engOverridden = [u \in ParamUnits |-> FALSE]
  /\ engValue = [u \in ParamUnits |-> 0]
  /\ engWrites = {}
  /\ attrOverridden = [m \in ParamModels |-> FALSE]
  /\ attrValue = [m \in ValueModels |-> 0]
  /\ pushed = [m \in ValueModels |-> [value |-> 0, overridden |-> FALSE]]
  /\ calls = <<>>

NodeInit ==
  /\ NodeIdle
  /\ GraphIdle
  /\ TransportIdle
  /\ PartIdle
  /\ MeterIdle
  /\ ReverbIdle
  /\ ClockIdle
  /\ ObserverIdle
  /\ CallbackIdle
  /\ UnitIdle
  /\ SamplerIdle
  /\ SetCallbackIdle
  /\ thrown = FALSE
  /\ lastOp = "init"

\* initialize() of a model that is handed its unit later (InternalAudioNodeModel,
\* nested ParamModel: `_create_node` false): no unit is created.
InitializeSubModel(m) ==
  /\ m \in SubModels \ created
  /\ created' = created \cup {m}
  /\ thrown' = FALSE
  /\ lastOp' = "initialize"
  /\ UNCHANGED <<node, attrDisposed, unitDisposed, redisposed, outsideNode>>

\* AudioNodeModel.initialize of the composite node: createNode, then
\* setInputOutputNodes and setSubNodes hand the unit's input, output and
\* parameter to the sub-models (which exist: the references are unpacked
\* before initialize runs).
InitializeNode ==
  /\ "node" \notin created
  /\ SubModels \subseteq created
  /\ created' = created \cup {"node"}
  /\ node' = [m \in Models |-> IF m \in {"node"} \cup SubModels THEN m ELSE node[m]]
  /\ thrown' = FALSE
  /\ lastOp' = "initialize"
  /\ UNCHANGED <<attrDisposed, unitDisposed, redisposed, outsideNode>>

\* BaseEventModel.initialize: this.event = this.createEvent()
InitializeEvent(m) ==
  /\ m \in EventModels \ created
  /\ created' = created \cup {m}
  /\ node' = [node EXCEPT ![m] = m]
  /\ thrown' = FALSE
  /\ lastOp' = "initialize"
  /\ UNCHANGED <<attrDisposed, unitDisposed, redisposed, outsideNode>>

\* InternalAudioNodeModel instances: the input and output sub-models
InternalModels == {"in", "out"}

InternalCreateNodeBuilds(m) == [unit |-> m, thrown |-> FALSE]

\* InternalAudioNodeModel.createNode: throw new Error('Not implemented')
InternalCreateNode(m) == [unit |-> NoUnit, thrown |-> TRUE]

\* A call of createNode on an internal model: from AudioNodeModel.initialize
\* when the remote side created the model with `_create_node` true (the
\* constructor fails and no model is registered), or from any other caller.
\* this.node is assigned only when createNode returns.
CallInternalCreateNode(m) ==
  /\ m \in InternalModels
  /\ node' = IF InternalCreateNode(m).thrown THEN node
             ELSE [node EXCEPT ![m] = InternalCreateNode(m).unit]
  /\ thrown' = InternalCreateNode(m).thrown
  /\ lastOp' = "createNode:" \o m
  /\ UNCHANGED <<created, attrDisposed, unitDisposed, redisposed, outsideNode>>

\* The remote side changes `_disposed` of a model: the attribute takes the
\* new value and the 'change:_disposed' listeners run.
SetDisposed(m, v) ==
  /\ m \in created
  /\ attrDisposed[m] # v
  /\ attrDisposed' = [attrDisposed EXCEPT ![m] = v]
  /\ StoreNodeEngine(DisposeListeners(NodeEngine, m, node[m]))
  /\ lastOp' = "dispose:" \o m
  /\ UNCHANGED <<created, node, outsideNode>>

NodeNext ==
  \/ \E m \in SubModels : InitializeSubModel(m)
  \/ InitializeNode
  \/ \E m \in EventModels : InitializeEvent(m)
  \/ \E m \in Models, v \in BOOLEAN : SetDisposed(m, v)
  \/ \E m \in InternalModels : CallInternalCreateNode(m)

NodeSpec == NodeInit /\ [][NodeNext]_vars

(***************************************************************************)
(* Node lifecycle: properties                                              *)
(***************************************************************************)
\* C3: disposing the same model any number of times never throws and never
\* calls the engine's dispose on a live unit that is already disposed,
\* whether it was disposed by an earlier dispose or by the engine's cascade.
C3_DisposeIdempotent ==
  \A m \in Models :
    node[m] # NoUnit =>
      /\ ~redisposed[node[m]]
      /\ (lastOp = "dispose:" \o m => ~thrown)

\* C10: once an audio node model has its live unit, the unit is undisposed
\* exactly when the model's `_disposed` attribute is false.
C10_UnitLiveIffNotDisposed ==
  \A m \in AudioNodeModels :
    node[m] # NoUnit => (~unitDisposed[node[m]] <=> ~attrDisposed[m])

\* C11: disposing a node marks the models of its input and output sub-nodes
\* disposed as well.
C11_DisposePropagates ==
  (lastOp = "dispose:node" /\ attrDisposed["node"] /\ node["node"] # NoUnit) =>
    (attrDisposed["in"] /\ attrDisposed["out"])

\* C20: an internal node model never constructs a unit of its own (it has a
\* unit only once its parent has been initialized and has handed it one), and
\* every call of its createNode throws.
C20_InternalNeverCreates ==
  \A m \in InternalModels :
    /\ (node[m] # NoUnit => "node" \in created)
    /\ (lastOp = "createNode:" \o m => thrown)

\* C20 witness: the input sub-model was initialized without a unit, and a
\* call of its createNode has just thrown, leaving it without a unit.
C20_Witness ==
  /\ lastOp = "createNode:in"
  /\ thrown
  /\ "in" \in created
  /\ "node" \notin created
  /\ node["in"] = NoUnit

(***************************************************************************)
(* Transport scheduler                                                     *)
(***************************************************************************)
\* external (remote side) event ids; each names one schedule command
EventIds == 1..MaxEvents
\* command.op of a schedule command: plain schedule, repeat, once
Ops == {"", "repeat", "once"}
\* transport times of the commands (time / start_time / after)
Times == {0, 1}

\* how many steps (callee, method, args) the callback descriptor of a
\* command has
ItemCounts == {1, 2}

\* A schedule command {event: 'schedule', id, op, time | start_time, items}.
\* command.interval of a repeat command
Intervals == {1, 2}
\* command.duration of a repeat command: absent (null), or a number
NoDuration == [given |-> FALSE, n |-> 0]
Durations == {NoDuration} \cup {[given |-> TRUE, n |-> d] : d \in 0..1}

ScheduleCommands ==
  [id : EventIds, op : Ops, time : Times, items : ItemCounts,
   interval : Intervals, duration : Durations]
\* the commands that name no duration, at the shortest interval
PlainCommands ==
  {command \in ScheduleCommands :
     command.interval = 1 /\ command.duration = NoDuration}
\* the commands whose callback descriptor has one step
SingleStepCommands == {command \in PlainCommands : command.items = 1}
\* the repeat commands, with every interval and duration
RepeatCommands ==
  {command \in ScheduleCommands : command.op = "repeat" /\ command.items = 1}

\* the duration the engine is given: a number, or Infinity
Unbounded == [unbounded |-> TRUE, n |-> 0]
Bounded(n) == [unbounded |-> FALSE, n |-> n]

\* the duration forwarded whenever the command carries one
RepeatDurationIfGiven(command) ==
  IF command.duration.given THEN Bounded(command.duration.n) ELSE Unbounded

\* schedule: command.duration ? command.duration : Infinity
RepeatDuration(command) ==
  IF command.duration.given /\ command.duration.n # 0
    THEN Bounded(command.duration.n)
    ELSE Unbounded

\* the interval and duration arguments of the engine call: scheduleRepeat
\* takes both, schedule and scheduleOnce take neither
RepeatArguments(command) ==
  IF command.op = "repeat"
    THEN <<command.interval, RepeatDuration(command)>>
    ELSE <<>>

EngineRegisterPerStep(events, handle, command) ==
  events \cup {[handle |-> handle + i - 1, id |-> command.id,
                op |-> command.op, time |-> command.time,
                repeat |-> RepeatArguments(command)]
               : i \in 1..command.items}

\* Engine: Transport.schedule / scheduleRepeat / scheduleOnce register the
\* callback and return a fresh handle.  The callback is the closure built
\* from the command's items: it is named by the command's id.
EngineRegister(events, handle, command) ==
  events \cup {[handle |-> handle, id |-> command.id, op |-> command.op,
                time |-> command.time, repeat |-> RepeatArguments(command)]}

\* Engine: Transport.clear(handle) removes the event registered under the
\* handle; no event has the handle `undefined`, and clearing a handle that
\* names no event changes nothing.
EngineClear(events, handles) == {ev \in events : ev.handle \notin handles}

\* Engine: Transport.cancel(after) removes the events at or after `after`.
EngineCancel(events, after) == {ev \in events : ev.time < after}

\* TransportModel.schedule after the await: the branch on command.op.  Only
\* the three known ops register; any other leaves event_id at 0.
ScheduleRegisters(command) == command.op \in {"", "repeat", "once"}

ClearHandlesByExternalId(map, pyEventID) == {pyEventID}

\* TransportModel.clearEvent: the argument of tone.Transport.clear, that is
\* this.py2jsEventID[pyEventID] (undefined, no handle, for an unknown id)
ClearHandles(map, pyEventID) ==
  IF pyEventID \in DOMAIN map THEN {map[pyEventID]} ELSE {}

\* the entry left in place
KeepKey(map, key) == map

\* delete this.py2jsEventID[pyEventID]
DeleteKey(map, key) == [k \in DOMAIN map \ {key} |-> map[k]]

\* this.py2jsEventID[command.id] = event_id
SetKey(map, key, value) ==
  [k \in DOMAIN map \cup {key} |-> IF k = key THEN value ELSE map[k]]

TransportInit ==
  /\ TransportIdle
  /\ GraphIdle
  /\ NodeIdle
  /\ PartIdle
  /\ MeterIdle
  /\ ReverbIdle
  /\ ClockIdle
  /\ ObserverIdle
  /\ CallbackIdle
  /\ UnitIdle
  /\ SamplerIdle
  /\ SetCallbackIdle
  /\ thrown = FALSE
  /\ lastOp = "init"

\* handleMsg 'schedule' -> schedule(command): the handler returns at the
\* await on getCallbackItems; the rest runs once the target models resolve.
\* The remote side uses each external id for one schedule command.
Schedule(command) ==
  /\ command.id \notin scheduled
  /\ scheduled' = scheduled \cup {command.id}
  /\ pending' = pending \cup {command}
  /\ unresolved' = SetKey(unresolved, command.id, command.items)
  /\ thrown' = FALSE
  /\ lastOp' = "schedule"
  /\ UNCHANGED <<py2jsEventID, engEvents, nextHandle, clearedPending,
                 outsideTransport>>

\* getCallbackItems: widget_manager.get_model of one callee resolves.
ResolveItem(id) ==
  /\ id \in DOMAIN unresolved
  /\ unresolved[id] > 0
  /\ unresolved' = [unresolved EXCEPT ![id] = unresolved[id] - 1]
  /\ lastOp' = "resolve"
  /\ UNCHANGED <<pending, py2jsEventID, engEvents, nextHandle, scheduled,
                 clearedPending, thrown, outsideTransport>>

SomeResolved(map, command) == map[command.id] < command.items

\* getCallbackItems: Promise.all(itemsModel) resolves when every callee has
\* resolved
AllResolved(map, command) == map[command.id] = 0

\* schedule(command) after the await (Promise.all over the items): build the
\* callback, register it with the engine transport and record the handle.
ScheduleResolved(command) ==
  /\ command \in pending
  /\ AllResolved(unresolved, command)
  /\ pending' = pending \ {command}
  /\ unresolved' = DeleteKey(unresolved, command.id)
  /\ IF ScheduleRegisters(command)
     THEN /\ engEvents' = EngineRegister(engEvents, nextHandle, command)
          /\ nextHandle' = nextHandle + 1
          /\ py2jsEventID' = SetKey(py2jsEventID, command.id, nextHandle)
     ELSE /\ py2jsEventID' = SetKey(py2jsEventID, command.id, 0)
          /\ UNCHANGED <<engEvents, nextHandle>>
  /\ thrown' = FALSE
  /\ lastOp' = "registered:" \o ToString(command.items)
  /\ UNCHANGED <<scheduled, clearedPending, outsideTransport>>

\* handleMsg 'clear' -> clearEvent(command.id), for any id the remote sends
ClearEvent(pyEventID) ==
  /\ engEvents' = EngineClear(engEvents, ClearHandles(py2jsEventID, pyEventID))
  /\ py2jsEventID' = DeleteKey(py2jsEventID, pyEventID)
  /\ clearedPending' = clearedPending \cup
                         {c.id : c \in {p \in pending : p.id = pyEventID}}
  /\ thrown' = FALSE
  /\ lastOp' = "clear:" \o ToString(pyEventID)
  /\ UNCHANGED <<pending, nextHandle, scheduled, unresolved, outsideTransport>>

\* handleMsg 'cancel' -> tone.Transport.cancel(command.after)
Cancel(after) ==
  /\ engEvents' = EngineCancel(engEvents, after)
  /\ thrown' = FALSE
  /\ lastOp' = "cancel"
  /\ UNCHANGED <<pending, py2jsEventID, nextHandle, scheduled, clearedPending,
                 unresolved, outsideTransport>>

\* Engine: a registered event fires; an event registered with scheduleOnce
\* is removed from the transport after firing.
Fire(ev) ==
  /\ ev \in engEvents
  /\ engEvents' = IF ev.op = "once" THEN engEvents \ {ev} ELSE engEvents
  /\ thrown' = FALSE
  /\ lastOp' = "fire"
  /\ UNCHANGED <<pending, py2jsEventID, nextHandle, scheduled, clearedPending,
                 unresolved, outsideTransport>>

TransportNext ==
  \/ \E command \in SingleStepCommands : Schedule(command)
  \/ \E id \in EventIds : ResolveItem(id)
  \/ \E command \in pending : ScheduleResolved(command)
  \/ \E pyEventID \in EventIds : ClearEvent(pyEventID)
  \/ \E after \in Times : Cancel(after)
  \/ \E ev \in engEvents : Fire(ev)

TransportSpec == TransportInit /\ [][TransportNext]_vars

\* Scheduling alone, with callback descriptors of any length.
ScheduleNext ==
  \/ \E command \in PlainCommands : Schedule(command)
  \/ \E id \in EventIds : ResolveItem(id)
  \/ \E command \in pending : ScheduleResolved(command)

ScheduleSpec == TransportInit /\ [][ScheduleNext]_vars

\* Repeat commands alone, with every interval and duration.
RepeatNext ==
  \/ \E command \in RepeatCommands : Schedule(command)
  \/ \E id \in EventIds : ResolveItem(id)
  \/ \E command \in pending : ScheduleResolved(command)

RepeatSpec == TransportInit /\ [][RepeatNext]_vars

(***************************************************************************)
(* Transport scheduler: properties                                         *)
(***************************************************************************)
\* the external ids that have an event registered with the engine transport
RegisteredIds(events) == {ev.id : ev \in events}

\* C4: an event whose clear was handled while its schedule command was still
\* waiting for its target nodes is never registered with the engine
\* transport afterwards.
C4_ClearedPendingNeverRegisters ==
  \A id \in clearedPending : id \notin RegisteredIds(engEvents)

\* C5: a clear command whose event id is not in the id-mapping table throws.
C5_ClearUnknownThrows ==
  [][\A id \in EventIds :
       (lastOp' = "clear:" \o ToString(id) /\ id \notin DOMAIN py2jsEventID)
         => thrown']_vars

\* C6: events scheduled under distinct external ids are registered under
\* distinct engine handles, and clearing one registered event leaves every
\* other event's engine registration and id-mapping entry as they were.
C6_SchedulerIdIsolation ==
  [][/\ \A e1, e2 \in engEvents' : e1.id # e2.id => e1.handle # e2.handle
     /\ \A a \in RegisteredIds(engEvents) :
          lastOp' = "clear:" \o ToString(a) =>
            \A b \in EventIds \ {a} :
              /\ {ev \in engEvents' : ev.id = b} = {ev \in engEvents : ev.id = b}
              /\ (b \in DOMAIN py2jsEventID =>
                    /\ b \in DOMAIN py2jsEventID'
                    /\ py2jsEventID'[b] = py2jsEventID[b])]_vars

\* C14: handling a schedule command returns with nothing registered and no
\* exception; a command's event appears in the engine transport only in a
\* step taken when all its target models have resolved; and as long as some
\* target is unresolved the event is not registered and no error is raised.
C14_RegistrationDeferred ==
  [][/\ lastOp' = "schedule" =>
          (engEvents' = engEvents /\ nextHandle' = nextHandle /\ ~thrown')
     /\ \A id \in RegisteredIds(engEvents') \ RegisteredIds(engEvents) :
          id \in DOMAIN unresolved /\ unresolved[id] = 0
     /\ \A id \in DOMAIN unresolved' :
          unresolved'[id] > 0 => (id \notin RegisteredIds(engEvents') /\ ~thrown')
    ]_vars

\* C14 witness: command 1 has two steps of which one target is still
\* unresolved, so it is not registered, while command 2, scheduled later,
\* is registered already.
C14_Witness ==
  /\ 1 \in DOMAIN unresolved /\ unresolved[1] = 1
  /\ \E command \in pending : command.id = 1 /\ command.items = 2
  /\ RegisteredIds(engEvents) = {2}
  /\ ~thrown

\* C15: the continuation of a schedule command registers exactly one callback
\* with the engine transport, whatever the number of steps of its
\* descriptor, and no command ever has two registrations.
C15_OneRegistrationPerCommand ==
  [][/\ \A command \in pending \ pending' :
          /\ Cardinality(engEvents') = Cardinality(engEvents) + 1
          /\ Cardinality({ev \in engEvents' : ev.id = command.id}) = 1
     /\ \A id \in EventIds : Cardinality({ev \in engEvents' : ev.id = id}) <= 1
    ]_vars

\* C15 witness: a command with a two-step descriptor has just been
\* registered, as one event.
C15_Witness ==
  /\ lastOp = "registered:2"
  /\ Cardinality(engEvents) = 1
  /\ nextHandle = 1

\* C21: handling clear for an external id whose event is registered removes
\* from the engine transport exactly the events under the handle stored for
\* that id, within the handler's step, and leaves the id without an entry in
\* the id-mapping table.
C21_ClearUsesStoredHandle ==
  [][\A id \in DOMAIN py2jsEventID \cap RegisteredIds(engEvents) :
       lastOp' = "clear:" \o ToString(id)
         => (/\ engEvents' =
                  {ev \in engEvents : ev.handle # py2jsEventID[id]}
             /\ id \notin RegisteredIds(engEvents')
             /\ id \notin DOMAIN py2jsEventID')]_vars

\* C21 witness: event 2, registered second under handle 1, has been cleared;
\* event 1 is still registered under handle 0.
C21_Witness ==
  /\ lastOp = "clear:2"
  /\ 2 \in scheduled /\ 2 \notin clearedPending
  /\ 2 \notin DOMAIN py2jsEventID
  /\ 1 \in DOMAIN py2jsEventID /\ py2jsEventID[1] = 0
  /\ \E ev \in engEvents : ev.id = 1 /\ ev.handle = 0
  /\ RegisteredIds(engEvents) = {1}

\* C22: a repeat command is registered with its interval, its start time and
\* its duration, and with an unbounded duration exactly when the command
\* carries none.
C22_RepeatForwarded ==
  [][\A command \in pending \ pending' :
       command.op = "repeat"
         => \E ev \in engEvents' \ engEvents :
              /\ ev.id = command.id
              /\ ev.time = command.time
              /\ ev.repeat = <<command.interval, RepeatDurationIfGiven(command)>>
    ]_vars

\* C35: every entry of the id-mapping table names an event that is still
\* registered with the engine; no entry stays behind for an event removed
\* by cancel or for a once-event that has fired.
C35_MappingOnlyRegistered ==
  \A id \in DOMAIN py2jsEventID :
    \E ev \in engEvents : ev.id = id /\ ev.handle = py2jsEventID[id]

\* C6 witness: event 1 was registered and has been cleared (its handle is no
\* longer in the table nor in the engine) while event 2 is still registered
\* under its own handle.
C6_Witness ==
  /\ lastOp = "clear:1"
  /\ 1 \in scheduled /\ 1 \notin clearedPending
  /\ 1 \notin DOMAIN py2jsEventID
  /\ nextHandle = 2
  /\ RegisteredIds(engEvents) = {2}
  /\ 2 \in DOMAIN py2jsEventID
  /\ \E ev \in engEvents : ev.id = 2 /\ ev.handle = py2jsEventID[2]

(***************************************************************************)
(* Part and Sequence                                                       *)
(***************************************************************************)
\* times and values of Part events
PartTimes == {0, 1}
PartValues == {"a", "b"}
\* command.value of `at` may be absent
Undefined == "undefined"
PartEventRecords == [time : PartTimes, value : PartValues]
\* the commands SequenceModel.handleMsg receives
SequenceCommands == {"add", "at", "remove", "clear"}

\* Engine: Part.add(event) appends one event.
EnginePartAdd(events, ev) == Append(events, ev)

\* the index of the first event of the Part at `time`, 0 if there is none
FirstAt(events, time) ==
  IF \E i \in 1..Len(events) : events[i].time = time
  THEN CHOOSE i \in 1..Len(events) :
         /\ events[i].time = time
         /\ \A j \in 1..(i - 1) : events[j].time # time
  ELSE 0

\* Engine: Part.at(time, value) replaces the value of the first event at
\* `time`; without such an event it adds one when a value is given.
EnginePartAt(events, time, value) ==
  IF FirstAt(events, time) # 0
  THEN IF value = Undefined THEN events
       ELSE [events EXCEPT ![FirstAt(events, time)].value = value]
  ELSE IF value = Undefined THEN events
       ELSE Append(events, [time |-> time, value |-> value])

\* Engine: Part.remove(time, value) deletes the events at `time` whose value
\* is identical (===) to `value`.
EnginePartRemove(events, time, value) ==
  SelectSeq(events, LAMBDA ev : ~(ev.time = time /\ ev.value = value))

\* Engine: Part.clear() / Sequence.clear() remove every event.
EnginePartClear(events) == <<>>

\* this.set('length', this.event.length)
SetLength(attr, m, n) == [attr EXCEPT ![m] = n]

SaveLengthSkipped(remote, attr, m) == remote

\* this.save_changes(): the remote side receives the attribute
SaveLength(remote, attr, m) == [remote EXCEPT ![m] = attr[m]]

\* the tail of PartModel.handleMsg / SequenceModel.handleMsg: "sync number
\* of events"
SyncLength(m, n) ==
  /\ attrLength' = SetLength(attrLength, m, n)
  /\ remoteLength' = SaveLength(remoteLength, SetLength(attrLength, m, n), m)

PartInit ==
  /\ PartIdle
  /\ GraphIdle
  /\ NodeIdle
  /\ TransportIdle
  /\ MeterIdle
  /\ ReverbIdle
  /\ ClockIdle
  /\ ObserverIdle
  /\ CallbackIdle
  /\ UnitIdle
  /\ SamplerIdle
  /\ SetCallbackIdle
  /\ thrown = FALSE
  /\ lastOp = "init"

\* PartModel.handleMsg {event: 'add', arg}
PartAdd(ev) ==
  /\ Len(partEvents) < MaxPartEvents
  /\ partEvents' = EnginePartAdd(partEvents, ev)
  /\ SyncLength("part", Len(EnginePartAdd(partEvents, ev)))
  /\ thrown' = FALSE
  /\ lastOp' = "part:add"
  /\ UNCHANGED <<seqCount, outsidePart>>

\* PartModel.handleMsg {event: 'at', time, value}
PartAt(time, value) ==
  /\ Len(partEvents) < MaxPartEvents
  /\ partEvents' = EnginePartAt(partEvents, time, value)
  /\ SyncLength("part", Len(EnginePartAt(partEvents, time, value)))
  /\ thrown' = FALSE
  /\ lastOp' = "part:at"
  /\ UNCHANGED <<seqCount, outsidePart>>

\* PartModel.handleMsg {event: 'remove', time, value}.  With time === null
\* the engine gets the decoded event object, which is identical to no stored
\* value: nothing is removed.
PartRemove(timeIsNull, time, value) ==
  /\ partEvents' = IF timeIsNull THEN partEvents
                   ELSE EnginePartRemove(partEvents, time, value)
  /\ SyncLength("part", Len(partEvents'))
  /\ thrown' = FALSE
  /\ lastOp' = "part:remove"
  /\ UNCHANGED <<seqCount, outsidePart>>

\* PartModel.handleMsg {event: 'clear'}
PartClear ==
  /\ partEvents' = EnginePartClear(partEvents)
  /\ SyncLength("part", Len(EnginePartClear(partEvents)))
  /\ thrown' = FALSE
  /\ lastOp' = "part:clear"
  /\ UNCHANGED <<seqCount, outsidePart>>

\* SequenceModel.handleMsg: only 'clear' reaches the engine; the length is
\* re-read after every command.
SequenceCommand(event) ==
  /\ seqCount' = IF event = "clear" THEN 0 ELSE seqCount
  /\ SyncLength("seq", seqCount')
  /\ thrown' = FALSE
  /\ lastOp' = "seq:" \o event
  /\ UNCHANGED <<partEvents, outsidePart>>

\* SequenceModel 'change:events' -> this.event.events = this.get('events');
\* `length` is not touched here.
SequenceChangeEvents(n) ==
  /\ n # seqCount
  /\ seqCount' = n
  /\ thrown' = FALSE
  /\ lastOp' = "seq:change:events"
  /\ UNCHANGED <<partEvents, attrLength, remoteLength, outsidePart>>

PartNext ==
  \/ \E ev \in PartEventRecords : PartAdd(ev)
  \/ \E time \in PartTimes, value \in PartValues \cup {Undefined} :
       PartAt(time, value)
  \/ \E timeIsNull \in BOOLEAN, time \in PartTimes, value \in PartValues :
       PartRemove(timeIsNull, time, value)
  \/ PartClear
  \/ \E event \in SequenceCommands : SequenceCommand(event)
  \/ \E n \in 0..MaxPartEvents : SequenceChangeEvents(n)

PartSpec == PartInit /\ [][PartNext]_vars

(***************************************************************************)
(* Part and Sequence: properties                                           *)
(***************************************************************************)
\* the number of events the engine object of a model contains
EngineLength(m) == IF m = "part" THEN Len(partEvents) ELSE seqCount

\* C8: after every add, at, remove or clear command on a Part or a Sequence
\* the model's length attribute equals the number of events the engine
\* object contains, and the remote side has been sent that value.
C8_LengthSynced ==
  \A m \in SequencingModels : \A c \in SequenceCommands :
    lastOp = m \o ":" \o c =>
      /\ attrLength[m] = EngineLength(m)
      /\ remoteLength[m] = EngineLength(m)

\* C8 witness: an add has just grown the Part from one event to two, and
\* both the attribute and the remote side say two.
C8_Witness ==
  /\ lastOp = "part:add"
  /\ Len(partEvents) = 2
  /\ attrLength["part"] = 2
  /\ remoteLength["part"] = 2

(***************************************************************************)
(* Meters and analysers                                                    *)
(***************************************************************************)
\* levels the engine reports, as their JavaScript number literals
NegInfinity == "-Infinity"
Sentinel == "-1e20"
Levels == {NegInfinity, "-6"}
\* BaseMeterModel subclasses and AnalyserModel
MeterKinds == {"MeterModel", "FFTModel", "AnalyserModel"}

\* sequences over S of length n
SeqsOfLen(S, n) == [1..n -> S]

\* Engine: node.getValue().  A Meter reports a number with one channel, a
\* plain array with one entry per channel otherwise; FFT, Waveform and
\* Analyser report a Float32Array.
Readings(kind) ==
  IF kind = "MeterModel"
  THEN {[kind |-> "number", elems |-> e] : e \in SeqsOfLen(Levels, 1)}
       \cup UNION {{[kind |-> "Array", elems |-> e] : e \in SeqsOfLen(Levels, n)}
                   : n \in 2..MaxChannels}
  ELSE UNION {{[kind |-> "Float32Array", elems |-> e] : e \in SeqsOfLen(Levels, n)}
              : n \in 1..MaxChannels}

\* x === -Infinity ? -1e20 : x
ReplaceNegInfinity(x) == IF x = NegInfinity THEN Sentinel ELSE x

\* BaseMeterModel.getValue: a number is replaced; an array only when
\* Array.isArray(value) && value.length == 2
BaseMeterGetValue(value) ==
  IF value.kind = "number"
  THEN [value EXCEPT !.elems = <<ReplaceNegInfinity(value.elems[1])>>]
  ELSE IF value.kind = "Array" /\ Len(value.elems) = 2
       THEN [value EXCEPT !.elems = <<ReplaceNegInfinity(value.elems[1]),
                                      ReplaceNegInfinity(value.elems[2])>>]
       ELSE value

\* AnalyserModel.getValue: return this.node.getValue()
AnalyserGetValue(value) == value

MeterInit ==
  /\ meterKind \in MeterKinds
  /\ reading \in Readings(meterKind)
  /\ surfaced = NoValue
  /\ GraphIdle
  /\ NodeIdle
  /\ TransportIdle
  /\ PartIdle
  /\ ReverbIdle
  /\ ClockIdle
  /\ ObserverIdle
  /\ CallbackIdle
  /\ UnitIdle
  /\ SamplerIdle
  /\ SetCallbackIdle
  /\ thrown = FALSE
  /\ lastOp = "init"

\* Engine: the signal changes, with the channel count of the unit fixed
EngineMeasure(value) ==
  /\ value # reading
  /\ value.kind = reading.kind
  /\ Len(value.elems) = Len(reading.elems)
  /\ reading' = value
  /\ lastOp' = "measure"
  /\ UNCHANGED <<meterKind, surfaced, thrown, outsideMeter>>

\* getValue / getValueAtTime of the model, as the observers call it
GetValue ==
  /\ surfaced' = IF meterKind = "AnalyserModel" THEN AnalyserGetValue(reading)
                 ELSE BaseMeterGetValue(reading)
  /\ thrown' = FALSE
  /\ lastOp' = "getValue"
  /\ UNCHANGED <<meterKind, reading, outsideMeter>>

MeterNext ==
  \/ \E value \in Readings(meterKind) : EngineMeasure(value)
  \/ GetValue

MeterSpec == MeterInit /\ [][MeterNext]_vars

(***************************************************************************)
(* Meters and analysers: properties                                        *)
(***************************************************************************)
\* C9: every read the engine reports as negative infinity is surfaced as
\* -1e20, for a scalar and for every element of an array, on every read;
\* negative infinity is never surfaced.
C9_NegInfinityNeverSurfaced ==
  lastOp = "getValue" =>
    /\ Len(surfaced.elems) = Len(reading.elems)
    /\ \A i \in 1..Len(reading.elems) :
         /\ surfaced.elems[i] # NegInfinity
         /\ (reading.elems[i] = NegInfinity => surfaced.elems[i] = Sentinel)

(***************************************************************************)
(* Asynchronously built node (Reverb)                                      *)
(***************************************************************************)
\* The connections the remote side declares around the reverb, in its
\* order: into the reverb, into the reverb's input sub-model, out of the
\* reverb, out of the reverb's output sub-model.
ReverbEdgeOrder ==
  << [src |-> "osc", dst |-> "reverb", out |-> 0, inp |-> 0],
     [src |-> "osc", dst |-> "in", out |-> 0, inp |-> 0],
     [src |-> "reverb", dst |-> "gain", out |-> 0, inp |-> 0],
     [src |-> "out", dst |-> "gain", out |-> 0, inp |-> 0] >>

ReverbConnectionLists ==
  LET picks == {p \in UNION {[1..n -> 1..Len(ReverbEdgeOrder)] : n \in 0..MaxConns} :
                  \A i, j \in 1..Len(p) : i < j => p[i] < p[j]}
  IN {[i \in 1..Len(p) |-> ReverbEdgeOrder[p[i]]] : p \in picks}

\* The state ReverbModel's handlers work on.
ReverbState ==
  [createNode |-> rvCreateNode, units |-> rvUnits, node |-> rvNode,
   then |-> rvThen, wired |-> rvWired, live |-> rvLive, thrown |-> FALSE]

\* this.node = this.createNode(): the engine constructs one more unit
ReverbCreateNode(st) ==
  [st EXCEPT !.units = st.units + 1, !.node = st.units + 1]

ReverbKeepCreateNode(st) == st

\* this.set('_create_node', false); this.save_changes()
ReverbClearCreateNode(st) == [st EXCEPT !.createNode = FALSE]

\* ReverbModel.initialize before super.initialize: build the unit, register
\* the callback on node.ready, clear `_create_node`
ReverbInitializeSpecial(st) ==
  IF st.createNode
  THEN ReverbClearCreateNode([ReverbCreateNode(st) EXCEPT !.then = TRUE])
  ELSE st

\* AudioNodeModel.setInputOutputNodes: hand this.node's input and output to
\* the sub-models
SetInputOutputNodes(st) ==
  [st EXCEPT !.wired = [m \in ReverbSubModels |-> st.node]]

\* AudioNodeModel.initialize (super.initialize of the ReverbModel)
AudioNodeInitialize(st) ==
  IF st.createNode THEN SetInputOutputNodes(ReverbCreateNode(st)) ELSE st

StoreReverbState(st) ==
  /\ rvCreateNode' = st.createNode
  /\ rvUnits' = st.units
  /\ rvNode' = st.node
  /\ rvThen' = st.then
  /\ rvWired' = st.wired
  /\ rvLive' = st.live
  /\ thrown' = st.thrown

ConnectionNodeOnceReady(st, ready, m) ==
  IF m = "reverb" THEN (IF ready THEN st.node ELSE 0)
  ELSE IF m \in ReverbSubModels THEN st.wired[m]
  ELSE 1

\* getConnectionNodes: conn[i].node, 0 when the model has no unit yet
ConnectionNode(st, ready, m) ==
  IF m = "reverb" THEN st.node
  ELSE IF m \in ReverbSubModels THEN st.wired[m]
  ELSE 1

RECURSIVE ReverbConnectAll(_, _, _)
\* updateConnections: forEach over the added connections.  A connect from
\* or to an undefined unit throws and ends the handler.
ReverbConnectAll(st, ready, added) ==
  IF added = <<>> THEN st
  ELSE IF ConnectionNode(st, ready, Head(added).src) = 0
          \/ ConnectionNode(st, ready, Head(added).dst) = 0
       THEN [st EXCEPT !.thrown = TRUE]
       ELSE ReverbConnectAll([st EXCEPT !.live = st.live \cup {Head(added)}],
                             ready, Tail(added))

RECURSIVE ReverbDisconnectAll(_, _)
\* updateConnections: forEach over the removed connections (no unit of this
\* model is disposed)
ReverbDisconnectAll(st, removed) ==
  IF removed = <<>> \/ st.thrown THEN st
  ELSE ReverbDisconnectAll([st EXCEPT !.live = st.live \ {Head(removed)}],
                           Tail(removed))

ReverbInit ==
  /\ ReverbIdle
  /\ GraphIdle
  /\ NodeIdle
  /\ TransportIdle
  /\ PartIdle
  /\ MeterIdle
  /\ ClockIdle
  /\ ObserverIdle
  /\ CallbackIdle
  /\ UnitIdle
  /\ SamplerIdle
  /\ SetCallbackIdle
  /\ thrown = FALSE
  /\ lastOp = "init"

\* ReverbModel.initialize
ReverbInitialize ==
  /\ ~rvCreated
  /\ rvCreated' = TRUE
  /\ StoreReverbState(AudioNodeInitialize(ReverbInitializeSpecial(ReverbState)))
  /\ lastOp' = "reverb:initialize"
  /\ UNCHANGED <<rvReady, rvConnections, outsideReverb>>

\* Engine: the impulse response of the first unit is generated and its
\* `ready` promise resolves.
ReverbBuildResolves ==
  /\ rvUnits > 0
  /\ ~rvReady
  /\ rvReady' = TRUE
  /\ lastOp' = "reverb:ready"
  /\ UNCHANGED <<rvCreated, rvCreateNode, rvUnits, rvNode, rvThen, rvWired,
                 rvConnections, rvLive, thrown, outsideReverb>>

\* The node.ready.then callback: input.setNode(node.input),
\* output.setNode(node.output)
ReverbReadyThen ==
  /\ rvReady
  /\ rvThen
  /\ StoreReverbState([SetInputOutputNodes(ReverbState) EXCEPT !.then = FALSE])
  /\ lastOp' = "reverb:wired"
  /\ UNCHANGED <<rvCreated, rvReady, rvConnections, outsideReverb>>

\* the attribute put back when its listener throws
AttributeRolledBack(old, new, threw) == IF threw THEN old ELSE new

\* The 'change:_connections' listener runs on the attribute already set;
\* nothing restores the previous value when the listener throws.
AttributeAfterListener(old, new, threw) == new

\* AudioGraphModel 'change:_connections' -> updateConnections with the
\* reverb among the declared endpoints.  The models of a declared connection
\* exist when the handler runs.
ReverbUpdateConnections(new) ==
  /\ rvCreated
  /\ new # rvConnections
  /\ StoreReverbState(
       ReverbDisconnectAll(
         ReverbConnectAll(ReverbState, rvReady, connAdded(new, rvConnections)),
         connRemoved(new, rvConnections)))
  /\ rvConnections' = AttributeAfterListener(rvConnections, new, thrown')
  /\ lastOp' = "reverb:update"
  /\ UNCHANGED <<rvCreated, rvReady, outsideReverb>>

ReverbNext ==
  \/ ReverbInitialize
  \/ ReverbBuildResolves
  \/ ReverbReadyThen
  \/ \E new \in ReverbConnectionLists : ReverbUpdateConnections(new)

ReverbSpec == ReverbInit /\ [][ReverbNext]_vars

(***************************************************************************)
(* Asynchronously built node: properties                                   *)
(***************************************************************************)
\* C12: the reverb's input and output sub-models are wired to the live unit
\* only after the asynchronous build has resolved, never before, and
\* initialization constructs one unit only: the generic path neither builds
\* nor wires a second one.
C12_WiredOnlyAfterBuild ==
  /\ rvUnits <= 1
  /\ rvCreated => (rvUnits = 1 /\ rvNode = 1)
  /\ \A m \in ReverbSubModels : rvWired[m] # 0 => (rvReady /\ rvWired[m] = 1)

\* C12 witness: the build has resolved and the callback has wired both
\* sub-models to the one unit.
C12_Witness ==
  /\ lastOp = "reverb:wired"
  /\ rvReady
  /\ rvUnits = 1
  /\ \A m \in ReverbSubModels : rvWired[m] = 1

\* C13: a connection update that adds connections whose destination is the
\* reverb while its build has not resolved does not throw.
C13_ConnectUnderConstruction ==
  [][(/\ lastOp' = "reverb:update"
      /\ rvUnits > 0 /\ ~rvReady
      /\ connAdded(rvConnections', rvConnections) # <<>>
      /\ \A e \in Range(connAdded(rvConnections', rvConnections)) :
           e.dst = "reverb")
     => ~thrown']_vars

\* C13 witness: the connection into the reverb was handled, without an
\* exception, while the build was still running.
C13_Witness ==
  /\ lastOp = "reverb:update"
  /\ ~rvReady
  /\ rvConnections = <<ReverbEdgeOrder[1]>>
  /\ ~thrown

\* the connect of edge e is handed a unit that is undefined
ConnectThrows(e) ==
  \/ ConnectionNode(ReverbState, rvReady, e.src) = 0
  \/ ConnectionNode(ReverbState, rvReady, e.dst) = 0

\* C23: when an engine call made by the connections listener throws, the
\* handler ends with that exception, the `_connections` attribute holds the
\* newly declared value and not the previous one, and the connections made
\* before the failing call stay live: nothing is rolled back.
C23_ThrowKeepsNewValue ==
  [][lastOp' = "reverb:update"
       => /\ (\E e \in Range(connAdded(rvConnections', rvConnections)) :
                ConnectThrows(e)) => thrown'
          /\ thrown' => (/\ rvConnections' # rvConnections
                         /\ rvLive \subseteq rvLive'
                         /\ \A e \in Range(rvConnections') \ Range(rvConnections) :
                              ~ConnectThrows(e) \/ e \notin rvLive')]_vars

\* The remote side declared osc -> reverb and osc -> reverb's input before
\* the input sub-model was wired: the first connect was made, the second
\* threw, and the attribute holds both connections.
C23_Witness ==
  /\ lastOp = "reverb:update"
  /\ thrown
  /\ rvConnections = <<ReverbEdgeOrder[1], ReverbEdgeOrder[2]>>
  /\ rvLive = {ReverbEdgeOrder[1]}

(***************************************************************************)
(* Scheduled observation of a trait                                        *)
(***************************************************************************)
\* A scheduleRepeat command {transport, update_interval, draw}; the interval
\* and the draw flag change when a repetition fires, not whether it does.
ObserverCommands == [transport : BOOLEAN]

\* ScheduleObserverModel.initialize; the transport holds no event yet.
ObserverInit ==
  /\ obEvent = [id |-> 0, transport |-> FALSE]
  /\ obTimers = {}
  /\ obEvents = {}
  /\ obNextTimer = 1
  /\ obNextHandle = 0
  /\ obCancelled = FALSE
  /\ GraphIdle
  /\ NodeIdle
  /\ TransportIdle
  /\ PartIdle
  /\ MeterIdle
  /\ ReverbIdle
  /\ ClockIdle
  /\ CallbackIdle
  /\ UnitIdle
  /\ SamplerIdle
  /\ SetCallbackIdle
  /\ thrown = FALSE
  /\ lastOp = "init"

\* handleMsg 'scheduleRepeat' -> scheduleRepeat(transport, interval, draw):
\* tone.Transport.scheduleRepeat(callback, updateInterval) registers a repeat
\* event starting at time 0, setInterval starts a timer; this.event is
\* overwritten with the new id.
ObserverScheduleRepeat(command) ==
  /\ obNextTimer + obNextHandle <= MaxRepeats
  /\ IF command.transport
     THEN /\ obEvents' = obEvents \cup
                           {[handle |-> obNextHandle, time |-> 0, own |-> TRUE]}
          /\ obNextHandle' = obNextHandle + 1
          /\ obEvent' = [id |-> obNextHandle, transport |-> TRUE]
          /\ UNCHANGED <<obTimers, obNextTimer>>
     ELSE /\ obTimers' = obTimers \cup {obNextTimer}
          /\ obNextTimer' = obNextTimer + 1
          /\ obEvent' = [id |-> obNextTimer, transport |-> FALSE]
          /\ UNCHANGED <<obEvents, obNextHandle>>
  /\ obCancelled' = FALSE
  /\ thrown' = FALSE
  /\ lastOp' = "observer:repeat"
  /\ UNCHANGED outsideObserver

\* scheduleCancel: tone.Transport.cancel(this.event.id) removes the events
\* at or after the time this.event.id; clearInterval(this.event.id) stops
\* that one timer
ObserverCancel(events, timers, event) ==
  IF event.transport
    THEN [events |-> EngineCancel(events, event.id), timers |-> timers]
    ELSE [events |-> events, timers |-> timers \ {event.id}]

\* handleMsg 'scheduleCancel' -> scheduleCancel()
ObserverScheduleCancel ==
  /\ obEvents' = ObserverCancel(obEvents, obTimers, obEvent).events
  /\ obTimers' = ObserverCancel(obEvents, obTimers, obEvent).timers
  /\ obCancelled' = TRUE
  /\ thrown' = FALSE
  /\ lastOp' = "observer:cancel"
  /\ UNCHANGED <<obEvent, obNextTimer, obNextHandle, outsideObserver>>

\* Another model schedules an event on the transport (TransportModel
\* schedule, an event model's start): the engine registers it at `time`.
ObserverOtherSchedules(time) ==
  /\ obNextTimer + obNextHandle <= MaxRepeats
  /\ obEvents' = obEvents \cup
                   {[handle |-> obNextHandle, time |-> time, own |-> FALSE]}
  /\ obNextHandle' = obNextHandle + 1
  /\ thrown' = FALSE
  /\ lastOp' = "observer:other"
  /\ UNCHANGED <<obEvent, obTimers, obNextTimer, obCancelled, outsideObserver>>

\* A live timer or a live repeat event of the observer fires: setTargetTrait reads the
\* observed trait, sets the target trait and saves.
ObserverSynchronizes ==
  /\ obTimers # {} \/ \E ev \in obEvents : ev.own
  /\ thrown' = FALSE
  /\ lastOp' = "observer:sync"
  /\ UNCHANGED <<observerVars, outsideObserver>>

ObserverNext ==
  \/ \E command \in ObserverCommands : ObserverScheduleRepeat(command)
  \/ ObserverScheduleCancel
  \/ \E time \in Times : ObserverOtherSchedules(time)
  \/ ObserverSynchronizes

ObserverSpec == ObserverInit /\ [][ObserverNext]_vars

\* C24: once a scheduleCancel command was handled, and until the next
\* scheduleRepeat, the observer synchronizes the trait no more, whatever
\* scheduleRepeat commands came before.
C24_NoSyncAfterCancel ==
  obCancelled => lastOp # "observer:sync"

\* C36: scheduleCancel removes nothing but the observer's own repeat
\* registration, the one this.event names; every other event registered on
\* the transport stays registered.
C36_CancelRemovesOwnOnly ==
  [][lastOp' = "observer:cancel"
       => obEvents \ obEvents' \subseteq
            {ev \in obEvents : ev.own /\ ev.handle = obEvent.id}]_vars

(***************************************************************************)
(* Reconstructed callbacks: what a firing invokes                          *)
(***************************************************************************)
\* the resolved target models of the steps, the methods named, the argument
\* names
Targets == {"synth", "osc"}
Methods == {"start", "stop"}
ArgNames == {"a", "b"}

\* JavaScript values: numbers, null, undefined, and source text "time + n"
Num(n) == [kind |-> "number", n |-> n]
NullValue == [kind |-> "null", n |-> 0]
UndefinedValue == [kind |-> "undefined", n |-> 0]
Source(n) == [kind |-> "source", n |-> n]

\* callbackArgs entries { eval, value }: expressions over the firing time,
\* and literals (a number, null, a string that reads like an expression)
DeclaredArgs ==
  {[eval |-> TRUE, value |-> Source(n)] : n \in 0..1}
    \cup {[eval |-> FALSE, value |-> v] : v \in {Num(1), NullValue, Source(0)}}

\* callbackItem { callee / model, method, args, arg_keys }; arg_keys lists the
\* names of args in the order of the method's parameters
CallbackItems ==
  [callee : Targets, method : Methods, args : [ArgNames -> DeclaredArgs],
   arg_keys : {<<"a", "b">>, <<"b", "a">>}]

\* the steps of a callback: one item, or two
Descriptors ==
  {<<item>> : item \in CallbackItems}
    \cup {<<first, second>> : first \in CallbackItems, second \in CallbackItems}

\* eval(v.value) with `time` in scope
Eval(source, time) == Num(time + source.n)

\* the expression evaluated with the time of registration
CallbackArgEvaluatedEarly(v, time) ==
  IF v.eval THEN [value |-> Eval(v.value, 0), eval |-> TRUE]
  ELSE [value |-> v.value, eval |-> FALSE]

\* getToneCallback: the loop over Object.entries(item.args)
CallbackArg(v, time) ==
  IF v.eval THEN [value |-> Eval(v.value, time), eval |-> TRUE]
  ELSE [value |-> v.value, eval |-> FALSE]

\* utils.ts normalizeArguments: the values in the order of argsKeys, null
\* replaced by undefined
normalizeArguments(args, argsKeys) ==
  [i \in 1..Len(argsKeys) |->
     IF args[argsKeys[i]].value = NullValue THEN UndefinedValue
     ELSE args[argsKeys[i]].value]

\* item.model.node[item.method](...argsArray)
Invoke(item, time) ==
  [target |-> item.callee, method |-> item.method,
   args |-> normalizeArguments(
              [k \in ArgNames |-> CallbackArg(item.args[k], time)],
              item.arg_keys)]

\* the steps run last to first
ToneCallbackReversed(items, time) ==
  [i \in 1..Len(items) |-> Invoke(items[Len(items) + 1 - i], time)]

\* getToneCallback: callback(time) = items.forEach(...)
ToneCallback(items, time) == [i \in 1..Len(items) |-> Invoke(items[i], time)]

\* getToneCallback(items): the callback is built from the resolved items of
\* a command.
CallbackInit ==
  /\ cbItems \in Descriptors
  /\ cbTime = 0
  /\ cbLog = <<>>
  /\ GraphIdle
  /\ NodeIdle
  /\ TransportIdle
  /\ PartIdle
  /\ MeterIdle
  /\ ReverbIdle
  /\ ClockIdle
  /\ ObserverIdle
  /\ UnitIdle
  /\ SamplerIdle
  /\ SetCallbackIdle
  /\ thrown = FALSE
  /\ lastOp = "init"

\* Engine: the event fires and calls callback(time) with the clock time of
\* this firing.
CallbackFires ==
  /\ cbTime < MaxFirings
  /\ cbTime' = cbTime + 1
  /\ cbLog' = ToneCallback(cbItems, cbTime + 1)
  /\ thrown' = FALSE
  /\ lastOp' = "callback:fire"
  /\ UNCHANGED <<cbItems, outsideCallback>>

CallbackNext == CallbackFires

CallbackSpec == CallbackInit /\ [][CallbackNext]_vars

\* C29: each time the callback fires, the method of every step is invoked on
\* the step's target exactly once, in the order of the steps.
C29_StepsInvokedInOrder ==
  cbTime > 0 =>
    /\ Len(cbLog) = Len(cbItems)
    /\ \A i \in 1..Len(cbItems) :
         /\ cbLog[i].target = cbItems[i].callee
         /\ cbLog[i].method = cbItems[i].method

\* The callback with the steps synth.start, synth.stop fired a second time:
\* start was called on synth, then stop.
C29_Witness ==
  /\ cbTime = 2
  /\ Len(cbItems) = 2
  /\ cbItems[1].callee = "synth" /\ cbItems[1].method = "start"
  /\ cbItems[2].callee = "synth" /\ cbItems[2].method = "stop"
  /\ Len(cbLog) = 2
  /\ cbLog[1].method = "start" /\ cbLog[2].method = "stop"

\* the declared argument at position j of step i
DeclaredAt(i, j) == cbItems[i].args[cbItems[i].arg_keys[j]]

\* C30 as stated: at every firing each argument flagged as an expression is
\* passed as the expression's value at that firing's clock time, and each
\* argument flagged as a literal is passed with its declared value.
C30_LiteralsPassedAsDeclared ==
  cbTime > 0 =>
    \A i \in 1..Len(cbItems) : \A j \in 1..Len(cbItems[i].arg_keys) :
      cbLog[i].args[j] = IF DeclaredAt(i, j).eval
                           THEN Eval(DeclaredAt(i, j).value, cbTime)
                           ELSE DeclaredAt(i, j).value

\* C30 (amended): at every firing each argument flagged as an expression is
\* passed as the expression's value at that firing's clock time; each
\* argument flagged as a literal is passed with its declared value, except
\* that a declared null is passed as undefined.
C30_LiteralsPassedNullAsUndefined ==
  cbTime > 0 =>
    \A i \in 1..Len(cbItems) : \A j \in 1..Len(cbItems[i].arg_keys) :
      cbLog[i].args[j] = IF DeclaredAt(i, j).eval
                           THEN Eval(DeclaredAt(i, j).value, cbTime)
                           ELSE IF DeclaredAt(i, j).value = NullValue
                                  THEN UndefinedValue
                                  ELSE DeclaredAt(i, j).value

\* Second firing of a one-step callback whose arguments are the expression
\* "time + 1" and a literal null, listed in the order b, a: the call got
\* undefined and 3.
C30_Witness ==
  /\ cbTime = 2
  /\ Len(cbItems) = 1
  /\ cbItems[1].args["a"] = [eval |-> TRUE, value |-> Source(1)]
  /\ cbItems[1].args["b"] = [eval |-> FALSE, value |-> NullValue]
  /\ cbItems[1].arg_keys = <<"b", "a">>
  /\ cbLog[1].args = <<UndefinedValue, Num(3)>>

(***************************************************************************)
(* Transport clock: play commands and position synchronisation             *)
(***************************************************************************)
transportClock == <<tState, tTicks, tLoop, tAttr, tRemote>>
signalVars == <<sigValue, sigRemote, sigInitial, sigBound, sigPending>>

\* `time_signature` default: quarter notes per bar
QuartersPerBar == 4
TicksPerBar == QuartersPerBar * Resolution
\* the tempo is one quarter note per second
TicksPerSecond == Resolution
\* the clock is followed for two quarter notes
MaxTicks == 2 * Resolution
\* `loop_start` 0 and `loop_end` '4m': the loop is four bars long
LoopTicks == 4 * TicksPerBar

\* tone.Transport.position: "bars:quarters:sixteenths"
PositionOf(t) ==
  <<t \div TicksPerBar,
    (t % TicksPerBar) \div Resolution,
    ((t % Resolution) * 4) \div Resolution>>

\* tone.Transport.seconds, in milliseconds
SecondsOf(t) == (t * 1000) \div TicksPerSecond

\* tone.Transport.progress, in percent of the loop; 0 when not looping
ProgressOf(t, loop) == IF loop THEN (t * 100) \div LoopTicks ELSE 0

\* tone.Transport.position = p: a bare number is a time in seconds, a
\* "bars:quarters:sixteenths" string is transport time
TicksOfPosition(p) ==
  IF Len(p) = 1
    THEN (p[1] * TicksPerSecond) \div 1000
    ELSE p[1] * TicksPerBar + p[2] * Resolution + (p[3] * Resolution) \div 4

\* tone.Transport.seconds = s
TicksOfSeconds(ms) == (ms * TicksPerSecond) \div 1000

\* what syncPosition reads from the engine
EngineReading(t, loop) ==
  [position |-> PositionOf(t), seconds |-> SecondsOf(t),
   progress |-> ProgressOf(t, loop), ticks |-> t]

\* syncPosition without its save_changes()
SaveTransportSkipped(remote, attr) == remote

\* syncPosition: this.save_changes() sends the four attributes
SaveTransport(remote, attr) == attr

\* the transport methods the remote side plays
PlayMethods == {"start", "stop", "pause", "toggle"}
PlayCommands == [method : PlayMethods]

\* tone.Transport[method](): the engine's transport state machine
TransportCall(method, state, ticks) ==
  CASE method = "start" -> [state |-> "started", ticks |-> ticks]
    [] method = "stop" -> [state |-> "stopped", ticks |-> 0]
    [] method = "pause" ->
         [state |-> IF state = "started" THEN "paused" ELSE state,
          ticks |-> ticks]
    [] method = "toggle" ->
         IF state = "started"
           THEN [state |-> "stopped", ticks |-> 0]
           ELSE [state |-> "started", ticks |-> ticks]

\* play calling one fixed method whatever the command names
PlayMethodToggle(command) == "toggle"

\* play: tone.Transport[command.method]
PlayMethod(command) == command.method

\* syncPosition(): the four attributes are set from the engine (silently)
\* and saved
SyncPosition(remote, t, loop) ==
  /\ tAttr' = EngineReading(t, loop)
  /\ tRemote' = SaveTransport(remote, EngineReading(t, loop))

\* handleMsg 'play' -> play(command)
PlayWith(command, eng) ==
  /\ tState' = eng.state
  /\ tTicks' = eng.ticks
  /\ SyncPosition(tRemote, eng.ticks, tLoop)
  /\ thrown' = FALSE
  /\ lastOp' = "play:" \o command.method
  /\ UNCHANGED <<tLoop, signalVars, qResult, outsideClock>>

Play(command) ==
  PlayWith(command, TransportCall(PlayMethod(command), tState, tTicks))

\* positions, seconds (ms) and ticks the remote side sets
PositionInputs == {<<0, 0, 0>>, <<0, 1, 0>>, <<0, 0, 2>>, <<1000>>}
SecondsInputs == {0, 500, 1000}
TickInputs == 0 .. 2

\* The handlers of 'change:position', 'change:seconds', 'change:ticks': the
\* engine is written, then syncPosition runs.  `sent` is the remote side's
\* state after it has set the attribute.
ChangeClock(sent, t, op) ==
  /\ tTicks' = t
  /\ SyncPosition(sent, t, tLoop)
  /\ thrown' = FALSE
  /\ lastOp' = op
  /\ UNCHANGED <<tState, tLoop, signalVars, qResult, outsideClock>>

\* 'change:position': tone.Transport.position = this.get('position')
ChangePosition(p) ==
  /\ p # tAttr.position
  /\ ChangeClock([tRemote EXCEPT !.position = p], TicksOfPosition(p),
                 "change:position")

\* 'change:seconds': tone.Transport.seconds = this.get('seconds')
ChangeSeconds(ms) ==
  /\ ms # tAttr.seconds
  /\ ChangeClock([tRemote EXCEPT !.seconds = ms], TicksOfSeconds(ms),
                 "change:seconds")

\* 'change:ticks': tone.Transport.position = this.get('ticks'); the engine
\* reads the bare number as seconds
ChangeTicks(n) ==
  /\ n # tAttr.ticks
  /\ ChangeClock([tRemote EXCEPT !.ticks = n], TicksOfPosition(<<n * 1000>>),
                 "change:ticks")

\* 'change:loop': tone.Transport.loop = this.get('loop')
ChangeLoop(b) ==
  /\ b # tLoop
  /\ tLoop' = b
  /\ thrown' = FALSE
  /\ lastOp' = "change:loop"
  /\ UNCHANGED <<tState, tTicks, tAttr, tRemote, signalVars, qResult,
                 outsideClock>>

\* engine: the clock of a started transport advances
Tick ==
  /\ tState = "started"
  /\ tTicks < MaxTicks
  /\ tTicks' = tTicks + 1
  /\ lastOp' = "tick"
  /\ UNCHANGED <<tState, tLoop, tAttr, tRemote, signalVars, qResult,
                 outsideClock, thrown>>

ClockInit ==
  /\ ClockIdle
  /\ GraphIdle
  /\ NodeIdle
  /\ TransportIdle
  /\ PartIdle
  /\ MeterIdle
  /\ ReverbIdle
  /\ ObserverIdle
  /\ CallbackIdle
  /\ UnitIdle
  /\ SamplerIdle
  /\ SetCallbackIdle
  /\ thrown = FALSE
  /\ lastOp = "init"

ClockNext ==
  \/ \E command \in PlayCommands : Play(command)
  \/ \E p \in PositionInputs : ChangePosition(p)
  \/ \E ms \in SecondsInputs : ChangeSeconds(ms)
  \/ \E n \in TickInputs : ChangeTicks(n)
  \/ \E b \in BOOLEAN : ChangeLoop(b)
  \/ Tick

ClockSpec == ClockInit /\ [][ClockNext]_vars

\* C16: a play command follows the transport state machine: start moves a
\* stopped or paused transport to started; stop moves any state to stopped
\* with the position back at zero; pause moves a started transport to paused
\* and keeps the position.
C16_PlayStateMachine ==
  [][/\ (lastOp' = "play:start" /\ tState \in {"stopped", "paused"})
          => tState' = "started"
     /\ lastOp' = "play:stop"
          => (tState' = "stopped" /\ tTicks' = 0
              /\ PositionOf(tTicks') = <<0, 0, 0>>)
     /\ (lastOp' = "play:pause" /\ tState = "started")
          => (tState' = "paused" /\ tTicks' = tTicks)]_vars

\* A started transport that has advanced was paused: it is paused where it was.
C16_Witness ==
  /\ lastOp = "play:pause"
  /\ tState = "paused"
  /\ tTicks > 0

PlayOps == {"play:" \o method : method \in PlayMethods}
ClockChangeOps == {"change:position", "change:seconds", "change:ticks"}

\* C17: after every play command and after every change of the position,
\* seconds or ticks attribute, the model's position, seconds, ticks and
\* progress equal the engine transport's current values, and the remote side
\* holds these same values.
C17_PositionSynced ==
  [][lastOp' \in PlayOps \cup ClockChangeOps
       => (/\ tAttr' = EngineReading(tTicks', tLoop')
           /\ tRemote' = tAttr')]_vars

\* The remote side set `ticks` on a looping transport: the attributes and the
\* remote side carry what the engine reports afterwards, not what was sent.
C17_Witness ==
  /\ lastOp = "change:ticks"
  /\ tLoop
  /\ tAttr.ticks = MaxTicks
  /\ tAttr.progress > 0
  /\ tRemote = tAttr

\* C37: a change of the `ticks` attribute to n sets the engine transport's
\* ticks to n, and no other field of the engine, before the positions are
\* read back.
C37_TicksWrittenToEngine ==
  [][\A n \in TickInputs :
       ChangeTicks(n) => tTicks' = n /\ tState' = tState /\ tLoop' = tLoop]_vars

(***************************************************************************)
(* Signal bound to the transport tempo                                     *)
(***************************************************************************)
SignalValues == {0, 1}
Ratios == {1, 2}
SyncCommands == [op : {"sync", "unsync"}, ratio : Ratios]

\* signalModel.save_changes() left out
SaveSignalSkipped(remote, value) == remote

\* signalModel.save_changes(): the remote side receives `value`
SaveSignal(remote, value) == value

\* The remote side sets the signal's `value`.
RemoteSetsSignal(v) ==
  /\ v # sigValue
  /\ sigValue' = v
  /\ sigRemote' = v
  /\ thrown' = FALSE
  /\ lastOp' = "signal:value"
  /\ UNCHANGED <<sigInitial, sigBound, sigPending, transportClock, qResult,
                 outsideClock>>

\* handleMsg 'sync_signal' -> syncSignal(command): the model lookup is
\* started, the rest runs when it resolves
SyncSignal(command) ==
  /\ command \notin sigPending
  /\ sigPending' = sigPending \cup {command}
  /\ thrown' = FALSE
  /\ lastOp' = "sync_signal"
  /\ UNCHANGED <<sigValue, sigRemote, sigInitial, sigBound, transportClock,
                 qResult, outsideClock>>

\* the lookup resolved, op 'sync': tone.Transport.syncSignal(node, ratio),
\* `value` set to 0 silently, save_changes
SignalSynced(command) ==
  /\ command.op = "sync"
  /\ Len(sigBound) < MaxSyncs
  /\ sigBound' = Append(sigBound, command.ratio)
  /\ sigInitial' = sigValue
  /\ sigValue' = 0
  /\ sigRemote' = SaveSignal(sigRemote, 0)
  /\ lastOp' = "synced:" \o ToString(command.ratio)

\* the lookup resolved, op 'unsync': tone.Transport.unsyncSignal(node) drops
\* every binding of the signal; the model's attributes are left alone
SignalUnsynced(command) ==
  /\ command.op = "unsync"
  /\ sigBound' = <<>>
  /\ lastOp' = "unsynced"
  /\ UNCHANGED <<sigValue, sigRemote, sigInitial>>

SyncSignalResolved(command) ==
  /\ command \in sigPending
  /\ sigPending' = sigPending \ {command}
  /\ \/ SignalSynced(command)
     \/ SignalUnsynced(command)
  /\ thrown' = FALSE
  /\ UNCHANGED <<transportClock, qResult, outsideClock>>

SignalNext ==
  \/ \E v \in SignalValues : RemoteSetsSignal(v)
  \/ \E command \in SyncCommands : SyncSignal(command)
  \/ \E command \in sigPending : SyncSignalResolved(command)

SignalSpec == ClockInit /\ [][SignalNext]_vars

\* C18: handling a signal sync command binds the signal to the transport at
\* the command's ratio, leaves the signal model's `value` at zero, and the
\* remote side holds that zero.
C18_SyncResetsValue ==
  [][\A r \in Ratios :
       lastOp' = "synced:" \o ToString(r)
         => (/\ sigBound' = Append(sigBound, r)
             /\ sigValue' = 0
             /\ sigRemote' = 0)]_vars

\* A signal whose value was 1 was bound at ratio 2.
C18_Witness ==
  /\ lastOp = "synced:2"
  /\ sigInitial = 1
  /\ sigBound = <<2>>
  /\ sigValue = 0
  /\ sigRemote = 0

(***************************************************************************)
(* Point queries: getValue and getValueAtTime                              *)
(***************************************************************************)
\* the observable models and the trait names an observer may name
QueryModels == {"transport", "param", "event"}
QueryTraits == {"value", "ticks", "seconds", "progress", "position", "state"}
\* how many ticks after now the queried time lies
QueryTimes == {0, 1}

Returns(v) == [thrown |-> FALSE, value |-> <<v>>]
Throws == [thrown |-> TRUE, value |-> <<>>]

\* tone.Transport.getTicksAtTime(time)
TicksAtTime(time) == IF tState = "started" THEN tTicks + time ELSE tTicks

\* TransportModel.getValue
TransportGetValue(trait) ==
  CASE trait = "ticks" -> Returns(tTicks)
    [] trait = "seconds" -> Returns(SecondsOf(tTicks))
    [] trait = "progress" -> Returns(ProgressOf(tTicks, tLoop))
    [] trait = "position" -> Returns(PositionOf(tTicks))
    [] trait = "state" -> Returns(tState)
    [] OTHER -> Throws

\* TransportModel.getValueAtTime
TransportGetValueAtTime(trait, time) ==
  CASE trait = "ticks" -> Returns(TicksAtTime(time))
    [] trait = "seconds" -> Returns(SecondsOf(TicksAtTime(time)))
    [] OTHER -> TransportGetValue(trait)

\* ParamModel.getValue and getValueAtTime: assert(traitName === 'value')
ParamGetValue(trait) ==
  IF trait = "value" THEN Returns(sigValue) ELSE Throws

ParamGetValueAtTime(trait, time) ==
  IF trait = "value" THEN Returns(sigValue) ELSE Throws

\* BaseEventModel.getValue, of an event that was not started
EventGetValue(trait) ==
  CASE trait = "state" -> Returns("stopped")
    [] trait = "progress" -> Returns(0)
    [] OTHER -> Throws

\* BaseEventModel.getValueAtTime
EventGetValueAtTime(trait, time) == EventGetValue(trait)

getValue(m, trait) ==
  CASE m = "transport" -> TransportGetValue(trait)
    [] m = "param" -> ParamGetValue(trait)
    [] m = "event" -> EventGetValue(trait)

getValueAtTime(m, trait, time) ==
  CASE m = "transport" -> TransportGetValueAtTime(trait, time)
    [] m = "param" -> ParamGetValueAtTime(trait, time)
    [] m = "event" -> EventGetValueAtTime(trait, time)

\* The traits a model reads from the engine's immediate getters only: its
\* getValueAtTime has no point-in-time lookup for them.
ImmediateOnlyTraits(m) ==
  CASE m = "transport" -> {"progress", "position", "state"}
    [] m = "param" -> {}
    [] m = "event" -> {"state", "progress"}

QueryEnds(op, m, trait, r) ==
  /\ qResult' = [op |-> op, model |-> m, trait |-> trait, value |-> r.value]
  /\ thrown' = r.thrown
  /\ lastOp' = op
  /\ UNCHANGED <<transportClock, signalVars, outsideClock>>

\* ScheduleObserverModel.setObservedTrait, not on the transport's clock
Query(m, trait) == QueryEnds("getValue", m, trait, getValue(m, trait))

\* ScheduleObserverModel.setObservedTrait, on the transport's clock
QueryAtTime(m, trait, time) ==
  QueryEnds("getValueAtTime", m, trait, getValueAtTime(m, trait, time))

QueryNext ==
  \/ \E command \in PlayCommands : Play(command)
  \/ \E b \in BOOLEAN : ChangeLoop(b)
  \/ Tick
  \/ \E m \in QueryModels, trait \in QueryTraits : Query(m, trait)
  \/ \E m \in QueryModels, trait \in QueryTraits, time \in QueryTimes :
       QueryAtTime(m, trait, time)

QuerySpec == ClockInit /\ [][QueryNext]_vars

\* C19: a getValueAtTime call for a trait that the model can only read
\* immediately ends with an unsupported-trait error, not with a value.
C19_AtTimeQueryFails ==
  (qResult.op = "getValueAtTime"
   /\ qResult.trait \in ImmediateOnlyTraits(qResult.model))
    => (thrown /\ qResult.value = <<>>)

(***************************************************************************)
(* Unit wiring: initialize, setNode and the replacement of a live unit     *)
(***************************************************************************)
\* most units the engine builds for one model
MaxUnits == 3

\* The model is a GainModel (sub-models: `_input`, `_output`, the nested
\* ParamModel `_gain` and that parameter's `_input`) or an instrument
\* (BaseInstrumentModel: `_input` is null, sub-model `_output`).
UnitKinds == {"gain", "instrument"}
WiredModels(kind) ==
  IF kind = "gain" THEN {"in", "out", "par", "parin"} ELSE {"out"}

\* A handle is an endpoint of a unit: [unit, part].
NoHandle == [unit |-> 0, part |-> "none"]
Handle(g, part) == [unit |-> g, part |-> part]

\* node.input, node.output, node.gain and node.gain.input
PartOf(m) ==
  CASE m = "in" -> "input"
    [] m = "out" -> "output"
    [] m = "par" -> "gain"
    [] m = "parin" -> "gain.input"

\* The declared models: a GainModel builds its unit or is handed it; an
\* instrument builds it, and replaceNode disposes the old unit (part_004) or
\* leaves it alone (part_005).
UnitConfigs ==
  {[kind |-> "gain", create_node |-> c, disposes |-> FALSE] : c \in BOOLEAN}
    \cup {[kind |-> "instrument", create_node |-> TRUE, disposes |-> d] :
            d \in BOOLEAN}

\* AudioNodeModel.setInputOutputNodes: input.setNode(node.input) and
\* output.setNode(node.output), for the references that are not null
setInputOutputNodes(sub, g) ==
  [m \in DOMAIN sub |-> IF m \in {"in", "out"} THEN Handle(g, PartOf(m))
                        ELSE sub[m]]

\* ParamModel.setNode: this.node = node; this.input.setNode(node.input)
ParamSetNode(sub, g) ==
  [m \in DOMAIN sub |-> IF m \in {"par", "parin"} THEN Handle(g, PartOf(m))
                        ELSE sub[m]]

\* AudioNodeModel.setSubNodes: nothing to bind
setSubNodesBase(sub, kind, g) == sub

\* setSubNodes: GainModel binds this.gain to node.gain; the base class, which
\* the instruments keep, binds nothing
setSubNodes(sub, kind, g) == IF kind = "gain" THEN ParamSetNode(sub, g) ELSE sub

\* the tail of AudioNodeModel.initialize and of AudioNodeModel.setNode
WireUnit(sub, kind, g) == setSubNodes(setInputOutputNodes(sub, g), kind, g)

\* Engine: a unit is built; its channelCount is the engine's default.
UnitEngineBuild(units) ==
  [units EXCEPT !.built = @ + 1,
                !.channels = Append(@, DefaultChannelCount)]

\* the unit is at hand: the one built last, or one more
UnitAtHand(units, g) == IF g > units.built THEN UnitEngineBuild(units) ELSE units

\* AudioNodeModel.setNodeChannels: node.channelCount = get('channel_count')
setNodeChannels(units, g, count) == [units EXCEPT !.channels[g] = count]

\* Engine: unit.dispose()
UnitEngineDispose(units, g) == [units EXCEPT !.disposed = units.disposed \cup {g}]

\* The remote side declares the model and its sub-models.
UnitInit ==
  /\ uConfig \in UnitConfigs
  /\ uInitialized = FALSE
  /\ uUnits = [built |-> 0, disposed |-> {}, channels |-> <<>>]
  /\ uNode = 0
  /\ uSub = [m \in WiredModels(uConfig.kind) |-> NoHandle]
  /\ uChannels = DefaultChannelCount
  /\ GraphIdle
  /\ NodeIdle
  /\ TransportIdle
  /\ PartIdle
  /\ MeterIdle
  /\ ReverbIdle
  /\ ClockIdle
  /\ ObserverIdle
  /\ CallbackIdle
  /\ SamplerIdle
  /\ SetCallbackIdle
  /\ thrown = FALSE
  /\ lastOp = "init"

\* AudioNodeModel.initialize: with `_create_node`, createNode and the wiring
UnitInitialize ==
  /\ ~uInitialized
  /\ uInitialized' = TRUE
  /\ IF uConfig.create_node
       THEN /\ uUnits' = setNodeChannels(UnitEngineBuild(uUnits),
                                          uUnits.built + 1, uChannels)
            /\ uNode' = uUnits.built + 1
            /\ uSub' = WireUnit(uSub, uConfig.kind, uUnits.built + 1)
       ELSE UNCHANGED <<uUnits, uNode, uSub>>
  /\ thrown' = FALSE
  /\ lastOp' = "unit:initialize"
  /\ UNCHANGED <<uConfig, uChannels, outsideUnit>>

\* AudioNodeModel.setNode(node): the owner of the model hands it a unit, one
\* it has just built or one built before.
UnitSetNode(g) ==
  /\ uInitialized
  /\ ~uConfig.create_node
  /\ g \in 1..(uUnits.built + 1)
  /\ g <= MaxUnits
  /\ g \notin uUnits.disposed
  /\ uUnits' = setNodeChannels(UnitAtHand(uUnits, g), g, uChannels)
  /\ uNode' = g
  /\ uSub' = WireUnit(uSub, uConfig.kind, g)
  /\ thrown' = FALSE
  /\ lastOp' = "unit:setNode"
  /\ UNCHANGED <<uConfig, uInitialized, uChannels, outsideUnit>>

\* BaseInstrumentModel.replaceNode, the listener of 'change:_trigger_attack'
\* and the like: [this.node.dispose();] this.node = this.createNode()
UnitReplace ==
  /\ uInitialized
  /\ uConfig.kind = "instrument"
  /\ uUnits.built < MaxUnits
  /\ uUnits' = UnitEngineBuild(IF uConfig.disposes
                                 THEN UnitEngineDispose(uUnits, uNode)
                                 ELSE uUnits)
  /\ uNode' = uUnits.built + 1
  /\ thrown' = FALSE
  /\ lastOp' = "unit:replace"
  /\ UNCHANGED <<uConfig, uInitialized, uSub, uChannels, outsideUnit>>

\* The remote side sets `_disposed`: ToneObjectModel.dispose disposes the
\* unit unless it is disposed already; with no unit, reading node.disposed
\* throws.
UnitDispose ==
  /\ uInitialized
  /\ lastOp # "unit:dispose"
  /\ IF uNode = 0
       THEN thrown' = TRUE /\ UNCHANGED uUnits
       ELSE /\ thrown' = FALSE
            /\ uUnits' = IF uNode \in uUnits.disposed THEN uUnits
                         ELSE UnitEngineDispose(uUnits, uNode)
  /\ lastOp' = "unit:dispose"
  /\ UNCHANGED <<uConfig, uInitialized, uNode, uSub, uChannels, outsideUnit>>

\* The remote side changes `channel_count`: 'change:channel_count' ->
\* setNodeChannels.  With no unit the assignment throws.
UnitChangeChannels(count) ==
  /\ uInitialized
  /\ count # uChannels
  /\ uChannels' = count
  /\ IF uNode = 0
       THEN thrown' = TRUE /\ UNCHANGED uUnits
       ELSE thrown' = FALSE /\ uUnits' = setNodeChannels(uUnits, uNode, count)
  /\ lastOp' = "unit:channels"
  /\ UNCHANGED <<uConfig, uInitialized, uNode, uSub, outsideUnit>>

UnitNext ==
  \/ UnitInitialize
  \/ \E count \in ChannelCounts : UnitChangeChannels(count)
  \/ \E g \in 1..MaxUnits : UnitSetNode(g)
  \/ UnitReplace
  \/ UnitDispose

UnitSpec == UnitInit /\ [][UnitNext]_vars

\* every sub-model holds the endpoint of the model's unit that it stands for
SubModelsWired ==
  \A m \in WiredModels(uConfig.kind) : uSub[m] = Handle(uNode, PartOf(m))

\* C32: after setNode, and after initialize of a model that builds its own
\* unit, the input and output sub-models hold the unit's input and output
\* and the nested parameter model holds the unit's parameter.
C32_SubModelsWired ==
  (lastOp = "unit:setNode" \/ (lastOp = "unit:initialize" /\ uConfig.create_node))
    => uNode # 0 /\ SubModelsWired

\* A GainModel that was handed the first unit is handed the second one: its
\* sub-models and its parameter hold the second unit's endpoints.
C32_Witness ==
  /\ lastOp = "unit:setNode"
  /\ uConfig.kind = "gain"
  /\ uNode = 2
  /\ uUnits.built = 2
  /\ uSub["in"] = Handle(2, "input")
  /\ uSub["par"] = Handle(2, "gain")
  /\ uSub["parin"] = Handle(2, "gain.input")

\* C33: after replaceNode the model's unit is the one just built, and the
\* input, output and nested sub-models hold that unit's endpoints.
C33_ReplacedUnitRewired ==
  lastOp = "unit:replace" => uNode = uUnits.built /\ SubModelsWired

\* the units built for the model that are not disposed
UndisposedUnits == (1..uUnits.built) \ uUnits.disposed

\* C40: whatever the number of replacements, at most one undisposed unit
\* built for an instrument model exists.
C40_AtMostOneUndisposedUnit ==
  uConfig.kind = "instrument" => Cardinality(UndisposedUnits) <= 1

(***************************************************************************)
(* Sampler: createNode and the audio buffer model it re-binds              *)
(***************************************************************************)
\* The buffer model is declared with a `buffer_url`, with or without
\* `_create_node`, reversed or not.
BufferConfigs == [create_node : BOOLEAN, reverse : BOOLEAN]

\* the values of the sampler's `attack`
AttackTimes == {0, 1}

\* Engine: new ToneAudioBuffer(url, ...): empty until the load ends.  `then`
\* and `onload` tell which callbacks of the model wait for the load.
EngineBufferFromUrl(reverse, then) ==
  [loaded |-> FALSE, reverse |-> reverse, length |-> 0,
   then |-> then, onload |-> FALSE]

\* Engine: new ToneAudioBuffer(buffer) of a loaded buffer: the same audio,
\* the `reverse` option at its default.
EngineBufferFromBuffer(source) ==
  [loaded |-> source.loaded, reverse |-> FALSE, length |-> source.length,
   then |-> FALSE, onload |-> FALSE]

\* node.duration / length / loaded / reverse, as the model reads them
BufferProperties(buffer) ==
  [loaded |-> buffer.loaded, reverse |-> buffer.reverse, length |-> buffer.length]

\* The state the handlers of the buffer model work on.
BufferState ==
  [attr |-> sbAttr, remote |-> sbRemote, node |-> sbNode, buffers |-> sbBuffers]

StoreBufferState(st) ==
  /\ sbAttr' = st.attr
  /\ sbRemote' = st.remote
  /\ sbNode' = st.node
  /\ sbBuffers' = st.buffers

\* AudioBufferModel.setBufferProperties: the attributes take the node's
\* properties; a changed `reverse` runs the 'change:reverse' listener, which
\* writes the same value back to the node; save_changes()
setBufferProperties(st) ==
  [st EXCEPT !.attr = BufferProperties(st.buffers[st.node]),
             !.remote = BufferProperties(st.buffers[st.node])]

\* AudioBufferModel.resetBufferProperties
resetBufferProperties(st) ==
  [st EXCEPT !.attr = [loaded |-> FALSE, reverse |-> st.attr.reverse, length |-> 0],
             !.remote = [loaded |-> FALSE, reverse |-> st.attr.reverse, length |-> 0]]

\* AudioBufferModel.setNode: bind the node; read its properties now when it
\* is loaded, at its onload otherwise
BufferSetNode(st, b) ==
  IF st.buffers[b].loaded THEN setBufferProperties([st EXCEPT !.node = b])
  ELSE [st EXCEPT !.node = b, !.buffers[b].onload = TRUE]

\* new tone.Sampler({urls: this.buffers.buffer_nodes}): the engine builds the
\* sampler's own buffer, from the url when the model has no node and from
\* the model's node otherwise
SamplerBuffer(st) ==
  IF st.node = 0 THEN EngineBufferFromUrl(FALSE, FALSE)
  ELSE EngineBufferFromBuffer(st.buffers[st.node])

\* SamplerModel.createNode: the sampler is built, then
\* this.buffers.setNode(sampler._buffers) hands every buffer model the
\* sampler's buffer
SamplerCreateNode(st) ==
  BufferSetNode([st EXCEPT !.buffers = Append(@, SamplerBuffer(st))],
                Len(st.buffers) + 1)

\* The remote side declares the buffer model, then the sampler.
SamplerInit ==
  /\ sbConfig \in BufferConfigs
  /\ sbInitialized = FALSE
  /\ sbAttr = [NoBufferProperties EXCEPT !.reverse = sbConfig.reverse]
  /\ sbRemote = sbAttr
  /\ sbNode = 0
  /\ sbBuffers = <<>>
  /\ smNode = 0
  /\ smAttack \in AttackTimes
  /\ smUnitAttack = 0
  /\ GraphIdle
  /\ NodeIdle
  /\ TransportIdle
  /\ PartIdle
  /\ MeterIdle
  /\ ReverbIdle
  /\ ClockIdle
  /\ ObserverIdle
  /\ CallbackIdle
  /\ UnitIdle
  /\ SetCallbackIdle
  /\ thrown = FALSE
  /\ lastOp = "init"

\* AudioBufferModel.initialize: with `_create_node`, a buffer is built and
\* fromUrl resets the properties and starts the load
BufferInitialize ==
  /\ ~sbInitialized
  /\ sbInitialized' = TRUE
  /\ IF sbConfig.create_node
       THEN StoreBufferState(resetBufferProperties(
              [BufferState EXCEPT
                 !.buffers = Append(@, EngineBufferFromUrl(sbAttr.reverse, TRUE)),
                 !.node = Len(sbBuffers) + 1]))
       ELSE UNCHANGED <<sbAttr, sbRemote, sbNode, sbBuffers>>
  /\ thrown' = FALSE
  /\ lastOp' = "buffer:initialize"
  /\ UNCHANGED <<sbConfig, smNode, smAttack, smUnitAttack, outsideSampler>>

\* Engine: the load of a buffer ends (the audio has length 1).  The promise of fromUrl and the onload
\* set by setNode both run setBufferProperties, which reads the model's
\* node.
BufferLoads(b) ==
  /\ b \in 1..Len(sbBuffers)
  /\ ~sbBuffers[b].loaded
  /\ LET loaded == [BufferState EXCEPT !.buffers[b].loaded = TRUE,
                                       !.buffers[b].length = 1]
     IN StoreBufferState(IF sbBuffers[b].then \/ sbBuffers[b].onload
                           THEN setBufferProperties(loaded) ELSE loaded)
  /\ thrown' = FALSE
  /\ lastOp' = IF sbBuffers[b].onload THEN "buffer:onload" ELSE "buffer:loaded"
  /\ UNCHANGED <<sbConfig, sbInitialized, smNode, smAttack, smUnitAttack,
                 outsideSampler>>

\* The remote side changes `reverse`: 'change:reverse' ->
\* node.reverse = get('reverse').  With no node the assignment throws.
BufferChangeReverse(v) ==
  /\ sbInitialized
  /\ v # sbAttr.reverse
  /\ sbAttr' = [sbAttr EXCEPT !.reverse = v]
  /\ IF sbNode = 0
       THEN thrown' = TRUE /\ UNCHANGED sbBuffers
       ELSE thrown' = FALSE /\ sbBuffers' = [sbBuffers EXCEPT ![sbNode].reverse = v]
  /\ lastOp' = "buffer:reverse"
  /\ UNCHANGED <<sbConfig, sbInitialized, sbRemote, sbNode, smNode, smAttack,
                 smUnitAttack, outsideSampler>>

\* AudioNodeModel.initialize of the sampler: this.node = this.createNode().
\* The buffer model exists (the `_buffers` reference is unpacked first);
\* its node, if it has one, has finished loading.
SamplerInitialize ==
  /\ sbInitialized
  /\ smNode = 0
  /\ sbNode # 0 => sbBuffers[sbNode].loaded
  /\ smNode' = 1
  /\ smUnitAttack' = smAttack
  /\ StoreBufferState(SamplerCreateNode(BufferState))
  /\ thrown' = FALSE
  /\ lastOp' = "sampler:createNode"
  /\ UNCHANGED <<sbConfig, sbInitialized, smAttack, outsideSampler>>

\* The remote side changes `attack`: 'change:attack' ->
\* node.attack = get('attack')
SamplerChangeAttack(v) ==
  /\ smNode # 0
  /\ v # smAttack
  /\ smAttack' = v
  /\ smUnitAttack' = v
  /\ thrown' = FALSE
  /\ lastOp' = "sampler:attack"
  /\ UNCHANGED <<sbConfig, sbInitialized, sbAttr, sbRemote, sbNode, sbBuffers,
                 smNode, outsideSampler>>

SamplerNext ==
  \/ BufferInitialize
  \/ \E b \in 1..2 : BufferLoads(b)
  \/ \E v \in BOOLEAN : BufferChangeReverse(v)
  \/ SamplerInitialize
  \/ \E v \in AttackTimes : SamplerChangeAttack(v)

SamplerSpec == SamplerInit /\ [][SamplerNext]_vars

\* C34: building the sampler's unit (createNode) changes no attribute of a
\* model, neither in the call nor in a callback the call has set up.
C34_CreateNodeOnlyReads ==
  [][sbAttr' # sbAttr \/ smAttack' # smAttack
       => lastOp' \notin {"sampler:createNode", "buffer:onload"}]_vars

(***************************************************************************)
(* Callback assignment (widget_event.ts)                                   *)
(***************************************************************************)
\* most set_callback commands one event model handles
MaxCommands == 3

\* The models a callback step can name as its callee.
Callees == {"a", "b"}

\* command.items, by the callee of each step
CalleeLists == {<<"a">>, <<"b">>, <<"a", "b">>, <<"b", "a">>}

\* getCallbackItems: Promise.all over one get_model per step; it resolves
\* once the widget manager has every callee.
getCallbackItemsResolved(models, items) == Range(items) \subseteq models

RECURSIVE ResolveAll(_, _)
\* setCallback after its await: event.callback = getToneCallback(items).
\* The continuations of the lookups that have just resolved run in the order
\* the commands were handled, each one overwriting the callback.
ResolveAll(callback, ready) ==
  IF ready = {} THEN callback
  ELSE LET k == CHOOSE i \in ready : \A j \in ready : i <= j
       IN ResolveAll(k, ready \ {k})

\* the pending commands whose lookup resolves with these models
Resolved(commands, pendingSet, models) ==
  {k \in pendingSet : getCallbackItemsResolved(models, commands[k])}

SetCallbackInit ==
  /\ scCommands = <<>>
  /\ scModels = {}
  /\ scPending = {}
  /\ scCallback = 0
  /\ GraphIdle
  /\ NodeIdle
  /\ TransportIdle
  /\ PartIdle
  /\ MeterIdle
  /\ ReverbIdle
  /\ ClockIdle
  /\ ObserverIdle
  /\ CallbackIdle
  /\ UnitIdle
  /\ SamplerIdle
  /\ thrown = FALSE
  /\ lastOp = "init"

\* handleMsg 'set_callback' -> setCallback(command), not awaited.  A lookup
\* that can resolve at once does so before the next message is handled.
HandleSetCallback(items) ==
  /\ Len(scCommands) < MaxCommands
  /\ LET commands == Append(scCommands, items)
         k == Len(commands)
         ready == Resolved(commands, {k}, scModels)
     IN /\ scCommands' = commands
        /\ scPending' = (scPending \cup {k}) \ ready
        /\ scCallback' = ResolveAll(scCallback, ready)
  /\ lastOp' = "event:set_callback"
  /\ UNCHANGED <<scModels, outsideSetCallback, thrown>>

\* The widget manager finishes creating a model: the lookups waiting for it
\* alone resolve, and their setCallback continuations run.
ModelRegistered(c) ==
  /\ c \notin scModels
  /\ LET ready == Resolved(scCommands, scPending, scModels \cup {c})
     IN /\ scModels' = scModels \cup {c}
        /\ scPending' = scPending \ ready
        /\ scCallback' = ResolveAll(scCallback, ready)
  /\ lastOp' = "event:get_model"
  /\ UNCHANGED <<scCommands, outsideSetCallback, thrown>>

SetCallbackNext ==
  \/ \E items \in CalleeLists : HandleSetCallback(items)
  \/ \E c \in Callees : ModelRegistered(c)

SetCallbackSpec == SetCallbackInit /\ [][SetCallbackNext]_vars

\* C39: once every set_callback command handled for the event model has
\* resolved, and there are at least two, event.callback is the one built
\* from the command handled last.
C39_LaterCommandWins ==
  (Len(scCommands) >= 2 /\ scPending = {}) => scCallback = Len(scCommands)

====
